---------------------------- MODULE Spec2Model ----------------------------
(***************************************************************************)
(* The character sheet engine (sheet module, src/unnamed/part_002) bound   *)
(* to the tabbed form (src/unnamed/part_000).                              *)
(*                                                                         *)
(* The sheet keeps no document object: its state is the state of the       *)
(* form's controls, which the engine reads and writes through the DOM.     *)
(* The variables below are those controls.  A stat is a row of PipCount    *)
(* checkboxes (a StatDots component); checked[g][s] is the set of the pip  *)
(* positions of stat s of section g that are checked and disabled[g][s]    *)
(* the set of those whose disabled flag is set.                            *)
(*                                                                         *)
(* Click events.  A click on a checkbox toggles the box BEFORE the event   *)
(* is dispatched, and the toggle is undone when a listener cancels the     *)
(* event.  The listeners of the sheet are written for that order (the      *)
(* .dots listener reads box.checked to learn the new state of the box it   *)
(* was clicked on, part_002 line 736), so every listener below is          *)
(* evaluated on the toggled state.  A disabled checkbox receives no click  *)
(* from the user.                                                          *)
(*                                                                         *)
(* The form renders its stats as StatDots components (.ef-stat-dots), so   *)
(* the branches of the engine for .dot-row / .dots markup (part_002        *)
(* 18-23, 54-57, 66-77, 317-329, 577-585, 722-747) find no element and are *)
(* left out.  The form is taken with no relationship card open: its text   *)
(* input (part_000 1311) is the only other control of the frame.           *)
(***************************************************************************)
EXTENDS Integers, Sequences, FiniteSets, TLC

(***************************************************************************)
(* The form (part_000, lines 1082-1590).                                   *)
(***************************************************************************)
Sections == <<"body", "skills", "priorities", "mind", "social">>

SectionNames == {Sections[i] : i \in 1..Len(Sections)}

pointsCapBySection ==
    [body |-> 20, skills |-> 50, priorities |-> 25, mind |-> 20, social |-> 15]

\* number of <StatDots> rows of each section
StatCount == [body |-> 6, skills |-> 22, priorities |-> 11, mind |-> 8, social |-> 6]

\* the count={...} of the rows of each section
PipCount == [body |-> 6, skills |-> 4, priorities |-> 4, mind |-> 5, social |-> 5]

\* number of range rows (.range-row / .social-slider) of each section
SliderCount == [body |-> 0, skills |-> 0, priorities |-> 0, mind |-> 9, social |-> 4]

\* number of Toggle checkboxes (.traits / .checkbox-list) of each section
TraitCount == [body |-> 0, skills |-> 0, priorities |-> 0, mind |-> 6, social |-> 8]

SliderMin == 0
SliderMax == 10
SliderDefault == 5

IdentityKeys ==
    <<"Name", "Nickname", "Race/Species", "Age", "Gender", "Birthday",
      "Class/Job", "Height">>

IdentityKeySet == {IdentityKeys[i] : i \in 1..Len(IdentityKeys)}

\* the defaultValue of each identity input
IdentityDefault ==
    [k \in IdentityKeySet |->
        CASE k = "Name" -> "Jane Doe"
          [] k = "Age" -> "XX"
          [] k = "Height" -> "XXX cm"
          [] OTHER -> "Unknown"]

noteOptions ==
    <<"Personality", "Hobbies", "Food-Related", "Habits", "Quirks", "Extras">>

NoteTitleSet == {noteOptions[i] : i \in 1..Len(noteOptions)}

\* the note sections the form renders: one per option, empty text
DefaultNotes == [i \in 1..Len(noteOptions) |-> [title |-> noteOptions[i], text |-> ""]]

(***************************************************************************)
(* Bounds of the exploration.                                              *)
(***************************************************************************)
\* operations performed in one behaviour
MaxOps == 2

\* operations performed in one behaviour of the tabbed application
MaxTabOps == 2

\* the stats of each section the user clicks pip by pip
ClickStats == {1}

\* the traits of mind and social the user toggles
ClickTraits == {1}

\* the sliders the user moves, and the positions moved to
ClickSliders == {1}
SliderInputs == {0}

(***************************************************************************)
(* Small helpers.                                                          *)
(***************************************************************************)
Min2(a, b) == IF a < b THEN a ELSE b
Max2(a, b) == IF a > b THEN a ELSE b

MaxOf(S) == CHOOSE x \in S : \A y \in S : y <= x

\* an optional value: <<>> when absent, <<x>> when present
None == <<>>
Some(x) == <<x>>
Has(o) == Len(o) > 0
Get(o) == o[1]

\* F applied to the value of x.  TLC hands an operator its arguments
\* unevaluated; the steps of a loop are chained with Then so that each step
\* works on the evaluated result of the step before it.
Then(x, F(_)) == CHOOSE r \in {F(v) : v \in {x}} : TRUE

RECURSIVE SumCard(_, _)
\* number of checked pips of the first n rows
SumCard(rows, n) == IF n = 0 THEN 0 ELSE Cardinality(rows[n]) + SumCard(rows, n - 1)


(***************************************************************************)
(* The state of the form's controls, as one record D:                      *)
(*   identity[k]          value of the identity input labelled k           *)
(*   notes                the note sections of #notesScroll, in order      *)
(*   checked[g][s]        checked pips of stat s of section g              *)
(*   disabled[g][s]       pips of that stat whose disabled flag is set     *)
(*   sliders[g][j]        value of range input j of section g              *)
(*   traits[g][t]         checked state of trait checkbox t of section g   *)
(*   traitDisabled[g][t]  its disabled flag                                *)
(*   counter[g]           the remaining figure shown in #pointsCounter-g   *)
(*   portraitData         the module variable of that name ("" when unset) *)
(***************************************************************************)

\* getSectionPointsUsed (part_002 253-266)
getSectionPointsUsed(D, g) ==
    LET dots == SumCard(D.checked[g], StatCount[g])
        toggles == Cardinality({t \in 1..TraitCount[g] : D.traits[g][t]})
    IN  IF g = "mind" \/ g = "social" THEN dots ELSE dots + toggles

\* mutant: the pip of a stat is never disabled
PipDisabledNever(remaining, currentValue, index) == FALSE

\* enforceSectionCap, the flag of an unchecked pip (part_002 311-313)
PipDisabledRule(remaining, currentValue, index) ==
    LET desiredValue == index
        delta == desiredValue - currentValue
    IN  remaining <= 0 \/ delta > remaining

\* enforceSectionCap (part_002 295-341)
enforceSectionCap(D, g) ==
    LET cap == pointsCapBySection[g]
        used == getSectionPointsUsed(D, g)
        remaining == cap - used
        isMindOrSocial == g = "mind" \/ g = "social"
    IN  [D EXCEPT
            !.disabled[g] =
                [s \in 1..StatCount[g] |->
                    {i \in 1..PipCount[g] :
                        /\ i \notin D.checked[g][s]
                        /\ PipDisabledRule(remaining, Cardinality(D.checked[g][s]), i)}],
            !.traitDisabled[g] =
                [t \in 1..TraitCount[g] |->
                    IF isMindOrSocial THEN FALSE
                    ELSE remaining <= 0 /\ ~D.traits[g][t]]]

RECURSIVE updateSections(_, _)
\* the forEach of updatePointsDisplay over Object.keys(pointsCapBySection)
updateSections(D, n) ==
    IF n > Len(Sections) THEN D
    ELSE LET g == Sections[n]
             used == getSectionPointsUsed(D, g)
             remaining == Max2(0, pointsCapBySection[g] - used)
         IN  Then(enforceSectionCap([D EXCEPT !.counter[g] = remaining], g),
                  LAMBDA N : updateSections(N, n + 1))

\* updatePointsDisplay (part_002 275-284)
updatePointsDisplay(D) == updateSections(D, 1)

(***************************************************************************)
(* A click on pip k of stat s of section g.                                *)
(***************************************************************************)
TogglePip(S, k) == IF k \in S THEN S \ {k} ELSE S \cup {k}

\* the capture-phase click listener (part_002 749-774); D is the state of
\* the controls while the event is dispatched, the clicked box toggled
ClickVetoed(D, g, s, k) ==
    LET cap == pointsCapBySection[g]
        currentValue == Cardinality(D.checked[g][s])
        targetIndex == k
        desiredValue == IF targetIndex = currentValue THEN 0 ELSE targetIndex
        sectionUsed == getSectionPointsUsed(D, g)
        otherPoints == sectionUsed - currentValue
    IN  /\ desiredValue > currentValue
        /\ otherPoints + desiredValue > cap

\* What the StatDots component makes of an accepted click on pip k when
\* its value is v (spec 4.1: progressive fill, the last filled pip clears).
StatDotsOnChange(v, k) == IF k = v THEN 0 ELSE k

\* A click event on pip k: the box is toggled, the capture listener may
\* cancel the event (the toggle is undone and nothing else sees the click);
\* otherwise the component sets its value and the change event that
\* follows reaches the document's change listener (part_002 776-793).
DispatchClick(D, g, s, k) ==
    LET toggled == [D EXCEPT !.checked[g][s] = TogglePip(@, k)]
        v == Cardinality(D.checked[g][s])
    IN  IF ClickVetoed(toggled, g, s, k) THEN D
        ELSE updatePointsDisplay(
                 [D EXCEPT !.checked[g][s] = 1..StatDotsOnChange(v, k)])

\* el.disabled = false; el.click()
ProgrammaticClick(D, g, s, k) ==
    DispatchClick([D EXCEPT !.disabled[g][s] = @ \ {k}], g, s, k)

\* setStatDotsValue (part_002 33-50)
setStatDotsValue(D, g, s, count) ==
    LET inputs == PipCount[g]
        safeCount == Max2(0, Min2(inputs, count))
        current == Cardinality(D.checked[g][s])
    IN  IF safeCount = current THEN D
        ELSE IF safeCount = 0
             THEN ProgrammaticClick(D, g, s, MaxOf(D.checked[g][s]))
             ELSE ProgrammaticClick(D, g, s, safeCount)

RECURSIVE clearDotRowsFrom(_, _, _)
clearDotRowsFrom(D, g, s) ==
    IF s > StatCount[g] THEN D
    ELSE Then(setStatDotsValue(D, g, s, 0),
              LAMBDA N : clearDotRowsFrom(N, g, s + 1))

\* clearDotRows (part_002 52-62)
clearDotRows(D, g) == clearDotRowsFrom(D, g, 1)

RECURSIVE setDotRowsFrom(_, _, _, _)
setDotRowsFrom(D, g, data, s) ==
    IF s > StatCount[g] THEN D
    ELSE Then(IF s \in DOMAIN data THEN setStatDotsValue(D, g, s, data[s]) ELSE D,
              LAMBDA N : setDotRowsFrom(N, g, data, s + 1))

\* setDotRows (part_002 64-87); data maps the position of a row's label
\* to a count, position 0 standing for a label no row carries
setDotRows(D, g, data) == setDotRowsFrom(D, g, data, 1)

\* clearChecksIn (part_002 216-225)
clearChecksIn(D, g) ==
    [D EXCEPT !.traits[g] = [t \in 1..TraitCount[g] |-> FALSE],
              !.traitDisabled[g] = [t \in 1..TraitCount[g] |-> FALSE]]

\* the value a range input keeps when v is assigned to it (min, max of the form)
SliderValue(v) == Max2(SliderMin, Min2(SliderMax, v))

\* setSliders (part_002 176-190)
setSliders(D, g, data) ==
    [D EXCEPT !.sliders[g] =
        [j \in 1..SliderCount[g] |->
            IF j \in DOMAIN data THEN SliderValue(data[j]) ELSE D.sliders[g][j]]]

\* mutant: setChecks writes nothing
setChecksNothing(D, g, data) == D

\* setChecks (part_002 203-214)
setChecks(D, g, data) ==
    [D EXCEPT !.traits[g] =
        [t \in 1..TraitCount[g] |->
            IF t \in DOMAIN data THEN data[t] ELSE D.traits[g][t]]]

\* setIdentity (part_002 141-152)
setIdentity(D, data) ==
    IF ~Has(data) THEN D
    ELSE [D EXCEPT !.identity =
            [k \in IdentityKeySet |->
                IF k \in DOMAIN Get(data) THEN Get(data)[k] ELSE D.identity[k]]]

\* createNoteSection (part_002 108-124)
createNoteSection(title, text) == [title |-> title, text |-> text]

\* setNotes (part_002 126-139)
setNotes(D, notes) ==
    [D EXCEPT !.notes =
        [i \in 1..Len(notes) |-> createNoteSection(notes[i].title, notes[i].text)]]

(***************************************************************************)
(* Documents.  A document handed to applySheetSnapshot is a record         *)
(*   kind      "null", "fields" (the legacy form) or "v2"                  *)
(*   fields    the legacy fields array, a sequence of items [t, on, v, n]: *)
(*             t the item's t, and its v seen as a truth value (on), as a  *)
(*             string (v) and as a number (n)                              *)
(*   identity  optional map label -> string                                *)
(*   notes     optional sequence of [title, text]                          *)
(*   stats     per section, optional map row position -> count             *)
(*   sliders   per section, optional map slider position -> number         *)
(*   traits    per section, optional map trait position -> boolean         *)
(*   portrait  a data URI, "" for null or absent                           *)
(* Position 0 (and any position beyond the section's rows) stands for a    *)
(* label the form does not define.                                         *)
(***************************************************************************)
NoGroups == [g \in SectionNames |-> None]

NullDoc ==
    [kind |-> "null", fields |-> <<>>, identity |-> None, notes |-> None,
     stats |-> NoGroups, sliders |-> NoGroups, traits |-> NoGroups, portrait |-> ""]

\* collectNotes (part_002 99-106)
collectNotes(D) ==
    [i \in 1..Len(D.notes) |->
        [title |-> IF D.notes[i].title = "" THEN "Untitled" ELSE D.notes[i].title,
         text |-> D.notes[i].text]]

\* getDotRows (part_002 15-31)
getDotRows(D, g) == [s \in 1..StatCount[g] |-> Cardinality(D.checked[g][s])]

\* getState (part_002 227-251) and getSheetSnapshot (part_002 636-643)
getSheetSnapshot(D) ==
    [kind |-> "v2", fields |-> <<>>,
     identity |-> Some(D.identity),
     notes |-> Some(collectNotes(D)),
     stats |-> [g \in SectionNames |-> Some(getDotRows(D, g))],
     sliders |-> [g \in SectionNames |->
                    IF g = "mind" \/ g = "social" THEN Some(D.sliders[g]) ELSE None],
     traits |-> [g \in SectionNames |->
                    IF g = "mind" \/ g = "social" THEN Some(D.traits[g]) ELSE None],
     portrait |-> D.portraitData]

RECURSIVE clearAllDotRows(_, _)
clearAllDotRows(D, n) ==
    IF n > Len(Sections) THEN D
    ELSE Then(clearDotRows(D, Sections[n]), LAMBDA N : clearAllDotRows(N, n + 1))

\* hardResetSheet, the loop over the frame's inputs and textareas
\* (part_002 510-530): stat pips are skipped, the other checkboxes take
\* defaultChecked, range inputs and text controls their defaultValue
ResetFields(D) ==
    [D EXCEPT
        !.traits = [g \in SectionNames |-> [t \in 1..TraitCount[g] |-> FALSE]],
        !.sliders = [g \in SectionNames |-> [j \in 1..SliderCount[g] |-> SliderDefault]],
        !.identity = IdentityDefault,
        !.notes = [i \in 1..Len(D.notes) |-> [D.notes[i] EXCEPT !.text = ""]]]

hardResetSheetKeepPortrait(D) ==
    Then(clearAllDotRows(D, 1), LAMBDA D1 :
        updatePointsDisplay(ResetFields(clearChecksIn(clearChecksIn(D1, "mind"), "social"))))

\* hardResetSheet (part_002 501-541)
hardResetSheet(D) ==
    Then(clearAllDotRows(D, 1), LAMBDA D1 :
        LET D2 == clearChecksIn(clearChecksIn(D1, "mind"), "social")
            D3 == ResetFields(D2)
        IN  updatePointsDisplay([D3 EXCEPT !.portraitData = ""]))

\* applySnapshot, one section (part_002 349-382)
applySection(D, data, g) ==
    LET D1 == clearDotRows(D, g)
        D2 == IF Has(data.stats[g]) THEN setDotRows(D1, g, Get(data.stats[g])) ELSE D1
        D3 == IF Has(data.sliders[g]) THEN setSliders(D2, g, Get(data.sliders[g])) ELSE D2
        D4 == clearChecksIn(D3, g)
        D5 == IF Has(data.traits[g]) THEN setChecks(D4, g, Get(data.traits[g])) ELSE D4
    IN  IF g = "mind" \/ g = "social" THEN D5 ELSE D2

RECURSIVE applySections(_, _, _)
applySections(D, data, n) ==
    IF n > Len(Sections) THEN D
    ELSE Then(applySection(D, data, Sections[n]),
              LAMBDA N : applySections(N, data, n + 1))

\* applySnapshot (part_002 343-385)
applySnapshot(D, data) ==
    LET D1 == setIdentity(D, data.identity)
        D2 == IF Has(data.notes) THEN setNotes(D1, Get(data.notes)) ELSE D1
    IN  updatePointsDisplay(applySections(D2, data, 1))

(***************************************************************************)
(* The legacy form: entry i of the fields array is written to the i-th     *)
(* input or textarea of the frame, file inputs left out, in document       *)
(* order: the note textareas, the identity inputs, then section by section *)
(* the pips of each stat, the range inputs and the trait checkboxes.       *)
(***************************************************************************)
SectionControls(g) == StatCount[g] * PipCount[g] + SliderCount[g] + TraitCount[g]

RECURSIVE ControlInSections(_, _)
\* the control at offset o (from 1) counted from section n on
ControlInSections(o, n) ==
    IF n > Len(Sections) THEN [type |-> "none"]
    ELSE LET g == Sections[n]
             pips == StatCount[g] * PipCount[g]
         IN  IF o > SectionControls(g) THEN ControlInSections(o - SectionControls(g), n + 1)
             ELSE IF o <= pips
                  THEN [type |-> "pip", g |-> g,
                        s |-> ((o - 1) \div PipCount[g]) + 1,
                        i |-> ((o - 1) % PipCount[g]) + 1]
                  ELSE IF o <= pips + SliderCount[g]
                       THEN [type |-> "range", g |-> g, j |-> o - pips]
                       ELSE [type |-> "trait", g |-> g, t |-> o - pips - SliderCount[g]]

\* element index (from 1) of document.querySelectorAll(".frame input, .frame textarea")
ControlAt(D, index) ==
    IF index <= Len(D.notes) THEN [type |-> "note", i |-> index]
    ELSE IF index <= Len(D.notes) + Len(IdentityKeys)
         THEN [type |-> "identity", k |-> IdentityKeys[index - Len(D.notes)]]
         ELSE ControlInSections(index - Len(D.notes) - Len(IdentityKeys), 1)

applyFieldNothing(D, item, el) == D

\* one pass of the forEach of the fields branch (part_002 654-664)
applyField(D, item, el) ==
    IF item.t = "c"
    THEN CASE el.type = "pip" ->
                [D EXCEPT !.checked[el.g][el.s] =
                    IF item.on THEN @ \cup {el.i} ELSE @ \ {el.i}]
           [] el.type = "trait" -> [D EXCEPT !.traits[el.g][el.t] = item.on]
           [] OTHER -> D
    ELSE CASE el.type = "note" -> [D EXCEPT !.notes[el.i].text = item.v]
           [] el.type = "identity" -> [D EXCEPT !.identity[el.k] = item.v]
           [] el.type = "range" -> [D EXCEPT !.sliders[el.g][el.j] = SliderValue(item.n)]
           [] OTHER -> D

RECURSIVE applyFieldsFrom(_, _, _, _)
\* data.fields.forEach (part_002 654-664), entries index..upto in order; the
\* run is split in halves to keep the evaluation shallow
applyFieldsFrom(D, fields, index, upto) ==
    IF index > upto THEN D
    ELSE IF index = upto THEN applyField(D, fields[index], ControlAt(D, index))
    ELSE LET mid == (index + upto) \div 2
         IN  Then(applyFieldsFrom(D, fields, index, mid),
                  LAMBDA N : applyFieldsFrom(N, fields, mid + 1, upto))

\* applySheetSnapshot (part_002 645-680)
applySheetSnapshot(D, data) ==
    Then(hardResetSheet(D), LAMBDA R :
        LET A == CASE data.kind = "null" -> R
                   [] data.kind = "fields" -> applyFieldsFrom(R, data.fields, 1, Len(data.fields))
                   [] OTHER -> applySnapshot(R, data)
        IN  IF data.kind # "null" /\ data.portrait # ""
            THEN [A EXCEPT !.portraitData = data.portrait]
            ELSE A)

RECURSIVE resetStatDotsFrom(_, _, _)
resetStatDotsFrom(D, g, s) ==
    IF s > StatCount[g] THEN D
    ELSE Then(IF D.checked[g][s] # {}
              THEN ProgrammaticClick(D, g, s, MaxOf(D.checked[g][s]))
              ELSE D,
              LAMBDA N : resetStatDotsFrom(N, g, s + 1))

\* resetStatDotsIn for a section (part_002 566-586)
resetStatDotsIn(D, g) == resetStatDotsFrom(D, g, 1)

\* resetTogglesIn for a section (part_002 588-597)
resetTogglesIn(D, g) ==
    [D EXCEPT !.traits[g] = [t \in 1..TraitCount[g] |-> FALSE],
              !.traitDisabled[g] = [t \in 1..TraitCount[g] |-> FALSE]]

\* resetSectionPoints without its scheduled update (part_002 628-632)
resetSectionNow(D, g) == resetTogglesIn(resetStatDotsIn(D, g), g)

\* the trait change handler's test (part_002 806-809)
TraitUncheck(used, cap) == used > cap

\* A click of the user on trait checkbox t of section g: the box toggles,
\* the trait's change listener runs (part_002 795-814), then the document's
\* change listener (part_002 776-793).
TraitChange(D, g, t) ==
    LET T == [D EXCEPT !.traits[g][t] = ~@]
        used == getSectionPointsUsed(T, g)
        U == IF TraitUncheck(used, pointsCapBySection[g])
             THEN [T EXCEPT !.traits[g][t] = FALSE]
             ELSE T
    IN  updatePointsDisplay(updatePointsDisplay(U))

\* the input listener of a range input (part_002 816-824)
SliderInput(D, g, j, v) ==
    updatePointsDisplay([D EXCEPT !.sliders[g][j] = SliderValue(v)])

\* A click of the user on pip k: a disabled checkbox receives no event.
UserClick(D, g, s, k) ==
    IF k \in D.disabled[g][s] THEN D ELSE DispatchClick(D, g, s, k)

RECURSIVE FillFrom(_, _, _)
\* the user clicks the top pip of stat s, then of s - 1, ... down to stat 1
FillFrom(D, g, s) ==
    IF s = 0 THEN D
    ELSE Then(UserClick(D, g, s, PipCount[g]), LAMBDA N : FillFrom(N, g, s - 1))

\* the add-note listener (part_002 841-858)
addNote(D, title) ==
    IF title = "" \/ \E i \in 1..Len(D.notes) : D.notes[i].title = title
    THEN D
    ELSE [D EXCEPT !.notes = Append(@, createNoteSection(title, ""))]

\* the remove-note listener (part_002 826-839)
removeNote(D, i) ==
    [D EXCEPT !.notes = SubSeq(@, 1, i - 1) \o SubSeq(@, i + 1, Len(@))]

(***************************************************************************)
(* The documents handed to applySheetSnapshot in the exploration.          *)
(***************************************************************************)
\* { "version": 2 }: every key omitted
DocEmpty == [NullDoc EXCEPT !.kind = "v2"]

\* a document within every cap; social is exactly at its cap
DocWithin ==
    [kind |-> "v2", fields |-> <<>>,
     identity |-> Some([k \in IdentityKeySet |-> IF k = "Name" THEN "Aria" ELSE "n/a"]),
     notes |-> Some(<<[title |-> "Extras", text |-> "scar"],
                      [title |-> "Personality", text |-> "brave"]>>),
     stats |-> [NoGroups EXCEPT
                  !.body = Some(1 :> 3 @@ 2 :> 2),
                  !.skills = Some(1 :> 4 @@ 22 :> 1),
                  !.social = Some(1 :> 5 @@ 2 :> 5 @@ 3 :> 5)],
     sliders |-> [NoGroups EXCEPT !.mind = Some(1 :> 7), !.social = Some(4 :> 0)],
     traits |-> [NoGroups EXCEPT !.mind = Some(1 :> TRUE @@ 2 :> FALSE),
                                 !.social = Some(8 :> TRUE)],
     portrait |-> "data:p1"]

\* a document whose stats exceed the caps of body (21 > 20), mind (23 > 20)
\* and social (16 > 15)
DocOver ==
    [DocEmpty EXCEPT
        !.stats = [NoGroups EXCEPT
                     !.body = Some(1 :> 6 @@ 2 :> 6 @@ 3 :> 6 @@ 4 :> 2 @@ 5 :> 1),
                     !.mind = Some(1 :> 5 @@ 2 :> 5 @@ 3 :> 5 @@ 4 :> 5 @@ 5 :> 3),
                     !.social = Some(1 :> 5 @@ 2 :> 5 @@ 3 :> 5 @@ 4 :> 1)]]

\* a document with keys the form does not define (position 0 and positions
\* beyond the section's rows, the identity key "Alias", the note title
\* "Secrets") and values out of range
DocUnknown ==
    [DocEmpty EXCEPT
        !.identity = Some("Alias" :> "x" @@ "Age" :> "31"),
        !.notes = Some(<<[title |-> "Secrets", text |-> "hidden"]>>),
        !.stats = [NoGroups EXCEPT !.body = Some(0 :> 3 @@ 1 :> 9 @@ 7 :> 2)],
        !.sliders = [NoGroups EXCEPT !.mind = Some(0 :> 3 @@ 1 :> 100)],
        !.traits = [NoGroups EXCEPT !.social = Some(0 :> TRUE @@ 2 :> TRUE)]]

\* a legacy document: text entries for the first 14 controls, then 36
\* checked checkbox entries
DocLegacy ==
    [NullDoc EXCEPT
        !.kind = "fields",
        !.fields = [i \in 1..50 |->
                      IF i <= 14
                      THEN [t |-> "t", on |-> TRUE, v |-> "old", n |-> 0]
                      ELSE [t |-> "c", on |-> TRUE, v |-> "true", n |-> 1]]]

\* a legacy document with more entries than the form has controls: text
\* entries "7" at the odd positions, checkbox entries at the even ones,
\* checked at every fourth
DocLegacyLong ==
    [NullDoc EXCEPT
        !.kind = "fields",
        !.fields = [i \in 1..285 |->
                      IF i % 2 = 1
                      THEN [t |-> "t", on |-> TRUE, v |-> "7", n |-> 7]
                      ELSE [t |-> "c", on |-> (i % 4 = 0), v |-> "", n |-> 0]]]

Docs == {NullDoc, DocEmpty, DocWithin, DocOver, DocUnknown, DocLegacy, DocLegacyLong}

\* { __blank: true, version: 2 }, the marker a tab record may hold in
\* place of a document (part_000 26)
BlankMarker == [NullDoc EXCEPT !.kind = "blank"]

\* { "version": 2, "identity": "x" }: a document whose identity is a string
DocMalformed == [NullDoc EXCEPT !.kind = "malformed"]

\* setIdentity (part_002 141-152) evaluates `key in data` with data the
\* identity of the document: a TypeError when that is a string
Throws(data) == data.kind = "malformed"

\* a relationship entry (id, name); the other fields are display only
RelationshipInputs == {[id |-> "r1", name |-> "Ann"]}
RelationshipTargets == {"family"}

\* the files handed to the import input: text that is not JSON, a document
\* above the caps without relationships, a document within the caps whose
\* relationships hold an array, a non-array and a selection, and a sheet
\* with an empty name in a file whose name is blank before its extension
FileInvalid ==
    [name |-> "bad.json", valid |-> FALSE, data |-> NullDoc, relationships |-> None,
     relationshipSelection |-> None]

FileOver ==
    [name |-> "hero.json", valid |-> TRUE, data |-> DocOver, relationships |-> None,
     relationshipSelection |-> None]

FileWithin ==
    [name |-> "aria.json", valid |-> TRUE, data |-> DocWithin,
     relationships |->
        Some("family" :> [array |-> TRUE, items |-> <<[id |-> "r9", name |-> "Bo"]>>]
             @@ "friends" :> [array |-> FALSE, items |-> <<>>]),
     relationshipSelection |->
        Some("family" :> [string |-> TRUE, id |-> "r9"]
             @@ "love" :> [string |-> FALSE, id |-> ""])]

FileUnnamed ==
    [name |-> " .json", valid |-> TRUE,
     data |-> [DocEmpty EXCEPT !.identity = Some("Name" :> "")],
     relationships |-> None, relationshipSelection |-> None]

Files == {FileInvalid, FileOver, FileWithin, FileUnnamed}

\* what the user types and picks
IdentityInputs == {"Aria"}
NoteInputs == {"likes tea"}
NoteChoices == {"Personality", "Extras"}
NoteTargets == {1}
PortraitInputs == {"data:p2"}

(***************************************************************************)
(* The tabbed application (part_000).  A tab record holds an id, the       *)
(* stored document (data) and the stored relationship registry and         *)
(* selection; titles are display only and left out.  A selection of null   *)
(* is "".  The entitlement check is taken as passed (isPremium) and the    *)
(* sheet as mounted (sheetReady).                                          *)
(***************************************************************************)
RelationshipTabs == {"family", "friends", "love", "hate"}

createRelationshipDefaults == [t \in RelationshipTabs |-> <<>>]

createRelationshipSelectionDefaults == [t \in RelationshipTabs |-> ""]

\* value is what a parsed file or a tab record holds under "relationships":
\* None if there is none, else a map from some keys to [array, items],
\* array telling whether the entry is an array
normalizeRelationshipMap(value) ==
    [t \in RelationshipTabs |->
        IF Has(value) /\ t \in DOMAIN Get(value) /\ Get(value)[t].array
        THEN Get(value)[t].items
        ELSE createRelationshipDefaults[t]]

\* value is None or a map from some keys to [string, id], string telling
\* whether the entry is a string
normalizeRelationshipSelection(value) ==
    [t \in RelationshipTabs |->
        IF Has(value) /\ t \in DOMAIN Get(value) /\ Get(value)[t].string
        THEN Get(value)[t].id
        ELSE createRelationshipSelectionDefaults[t]]

\* target?.relationships and target?.relationshipSelection of a tab record
\* that may be missing
TabRelationships(target) ==
    IF Has(target)
    THEN Some([t \in RelationshipTabs |->
                  [array |-> TRUE, items |-> Get(target).relationships[t]]])
    ELSE None

TabRelationshipSelection(target) ==
    IF Has(target)
    THEN Some([t \in RelationshipTabs |->
                  [string |-> Get(target).relationshipSelection[t] # "",
                   id |-> Get(target).relationshipSelection[t]]])
    ELSE None

\* tabsRef.current.find((tab) => tab.id === tabId)
FindTab(tabList, tabId) ==
    LET found == {i \in 1..Len(tabList) : tabList[i].id = tabId}
    IN  IF found = {} THEN None
        ELSE Some(tabList[CHOOSE i \in found : \A j \in found : i <= j])

\* currentTabs.findIndex((tab) => tab.id === tabId), from 1; 0 if there is none
FindIndex(tabList, tabId) ==
    LET found == {i \in 1..Len(tabList) : tabList[i].id = tabId}
    IN  IF found = {} THEN 0 ELSE CHOOSE i \in found : \A j \in found : i <= j

commitActiveTabNothing(tabList, active, D, map, selection) == tabList

\* commitActiveTab (part_000 588-602); triggerSave stores the same way
commitActiveTab(tabList, active, D, map, selection) ==
    [i \in 1..Len(tabList) |->
        IF tabList[i].id = active
        THEN [tabList[i] EXCEPT !.data = getSheetSnapshot(D),
                                !.relationships = map,
                                !.relationshipSelection = selection]
        ELSE tabList[i]]

\* buildDefaultSnapshot (part_002 464-484)
buildDefaultSnapshot ==
    [kind |-> "v2", fields |-> <<>>,
     identity |-> Some(IdentityDefault),
     notes |-> Some(DefaultNotes),
     stats |-> [g \in SectionNames |-> Some(<<>>)],
     sliders |-> [g \in SectionNames |->
                    IF g = "mind" \/ g = "social"
                    THEN Some([j \in 1..SliderCount[g] |-> SliderDefault])
                    ELSE None],
     traits |-> [g \in SectionNames |->
                    IF g = "mind" \/ g = "social" THEN Some(<<>>) ELSE None],
     portrait |-> ""]

\* buildBlankSnapshot (part_002 387-412); defaultsSnapshot is the state
\* initSheet read
buildBlankSnapshot ==
    [buildDefaultSnapshot EXCEPT
        !.identity = Some([k \in IdentityKeySet |-> ""]),
        !.notes = Some(<<>>)]

\* a new tab record
NewTab(id, data, map, selection) ==
    [id |-> id, data |-> data, relationships |-> map,
     relationshipSelection |-> selection]

(***************************************************************************)
(* Titles.  The title of a tab record is kept apart from the rest of the   *)
(* record, as a map from tab id to title.  The time of day createUntitled- *)
(* Title puts into a title is left out.                                    *)
(***************************************************************************)
\* String.prototype.trim on the strings of the exploration
Trim(text) == IF text = " " THEN "" ELSE text

\* createUntitledTitle (part_000 138-145)
createUntitledTitle(index) == "Untitled"

\* getCharacterNameFromSnapshot (part_000 191-199)
getCharacterNameFromSnapshot(data) ==
    IF data.kind = "blank" THEN ""
    ELSE IF Has(data.identity) /\ "Name" \in DOMAIN Get(data.identity)
         THEN Trim(Get(data.identity)["Name"])
         ELSE ""

\* file.name.replace(/\.[^/.]+$/, "") on the file names of the exploration
BaseName(name) ==
    CASE name = " .json" -> " "
      [] name = "hero.json" -> "hero"
      [] name = "aria.json" -> "aria"
      [] name = "bad.json" -> "bad"
      [] OTHER -> name

\* the title handleImportTab gives the tab of a file (part_000 699-703)
ImportTitle(file) ==
    LET nameFromData == getCharacterNameFromSnapshot(file.data)
    IN  IF nameFromData # "" THEN nameFromData
        ELSE IF BaseName(file.name) # "" THEN BaseName(file.name)
        ELSE "Sheet"

\* handleInput of the Name input (part_000 300-306), run when the active tab
\* changes and on every input event: T the titles, D the controls
handleInput(T, active, D) ==
    LET value == Trim(D.identity["Name"])
    IN  IF value = "" \/ active \notin DOMAIN T THEN T
        ELSE [T EXCEPT ![active] = value]

\* the title applyTabSnapshot sets (part_000 619-624), data what the record
\* of the tab held
TitleFromSnapshot(T, tabId, data) ==
    LET nextTitle == getCharacterNameFromSnapshot(data)
    IN  IF nextTitle = "" \/ tabId \notin DOMAIN T THEN T
        ELSE [T EXCEPT ![tabId] = nextTitle]

(***************************************************************************)
(* The stored blob.  What localStorage holds under tabsStorageKey is None  *)
(* (nothing, or the empty string) or Some of a record                      *)
(*   json       whether the text parses                                    *)
(*   tabsArray  whether the parsed value has an array under "tabs"         *)
(*   tabs       that array, each entry a record of what it has under id    *)
(*              and title ([string, v]: whether it is a string, and the    *)
(*              string), data (None for null or nothing, else a document), *)
(*              relationships and relationshipSelection (as the            *)
(*              normalize functions take them)                             *)
(*   activeId   [string, v]                                                *)
(***************************************************************************)
\* JSON.stringify({ activeId, tabs }) (part_000 284-290)
stringify(active, tabList, T) ==
    [json |-> TRUE,
     tabsArray |-> TRUE,
     activeId |-> [string |-> TRUE, v |-> active],
     tabs |-> [i \in 1..Len(tabList) |->
                 [id |-> [string |-> TRUE, v |-> tabList[i].id],
                  title |-> [string |-> TRUE, v |-> T[tabList[i].id]],
                  data |-> IF tabList[i].data.kind = "null" THEN None
                           ELSE Some(tabList[i].data),
                  relationships |-> TabRelationships(Some(tabList[i])),
                  relationshipSelection |-> TabRelationshipSelection(Some(tabList[i]))]]]

\* the ids createTabId returns to createInitialTabs: none of the stored ones
FreshTabId(raw, index) ==
    LET used == {raw[i].id.v : i \in {j \in 1..Len(raw) : raw[j].id.string}}
    IN  (IF used = {} THEN 0 ELSE MaxOf(used)) + index

\* createInitialTabs, the active id (part_000 166-169)
StoredActiveId(activeId, tabList) ==
    IF activeId.string /\ Has(FindTab(tabList, activeId.v))
    THEN activeId.v
    ELSE tabList[1].id

\* createInitialTabs (part_000 147-189): the tab records, their titles and
\* the active id the application starts with
createInitialTabs(stored) ==
    LET parsed == IF Has(stored) /\ Get(stored).json THEN stored ELSE None
        rawTabs == IF Has(parsed) /\ Get(parsed).tabsArray THEN Get(parsed).tabs
                   ELSE <<>>
        idOf(index) == IF rawTabs[index].id.string THEN rawTabs[index].id.v
                       ELSE FreshTabId(rawTabs, index)
        tabList == [index \in 1..Len(rawTabs) |->
                      NewTab(idOf(index),
                             IF Has(rawTabs[index].data)
                             THEN Get(rawTabs[index].data) ELSE NullDoc,
                             normalizeRelationshipMap(rawTabs[index].relationships),
                             normalizeRelationshipSelection(
                                 rawTabs[index].relationshipSelection))]
        titleOf(index) ==
            IF rawTabs[index].title.string /\ Trim(rawTabs[index].title.v) # ""
            THEN rawTabs[index].title.v
            ELSE createUntitledTitle(index)
        fallbackId == FreshTabId(rawTabs, 1)
    IN  IF Len(rawTabs) > 0
        THEN [activeId |-> StoredActiveId(Get(parsed).activeId, tabList),
              tabs |-> tabList,
              titles |-> [id \in {idOf(index) : index \in 1..Len(rawTabs)} |->
                            titleOf(CHOOSE index \in 1..Len(rawTabs) :
                                      idOf(index) = id)]]
        ELSE [activeId |-> fallbackId,
              tabs |-> <<NewTab(fallbackId, NullDoc, createRelationshipDefaults,
                                createRelationshipSelectionDefaults)>>,
              titles |-> (fallbackId :> createUntitledTitle(1))]

FallbackTabFirst(nextTabs, removedIndex) == nextTabs[1]

\* removeTab (part_000 671-687): the tab that becomes active when the
\* active tab at removedIndex is closed, nextTabs being the tabs that remain
FallbackTab(nextTabs, removedIndex) ==
    LET fallbackIndex == IF removedIndex > 1 THEN removedIndex - 1 ELSE 1
    IN  IF fallbackIndex <= Len(nextTabs) THEN nextTabs[fallbackIndex] ELSE nextTabs[1]

(***************************************************************************)
(* The state machine.                                                      *)
(***************************************************************************)
VARIABLES
    identity, notes, checked, disabled, sliders, traits, traitDisabled,
    counter, portraitData,
    pending,    \* updates scheduled by schedulePointsUpdate, not yet run
    ops,        \* number of operations performed
    last,       \* the operation performed last and its arguments
    tabs,                   \* tabsRef.current, the tab records in order
    activeTabId,
    relationshipMap,        \* the live relationship registry
    relationshipSelection,  \* the live relationship selection
    frames,     \* callbacks handed to requestAnimationFrame, not yet run
    reading,    \* imports whose file is being read: what the handler holds
    nextTab,    \* the id createTabId returns next
    download,   \* the payload of the last file handed to the browser
    away,       \* per tab, the live document and registry when it was left
    orderly,    \* no tab was activated or stored while a materialization was
                \* due or with the state of a render since replaced
    titles,     \* the title of each tab record, by tab id
    stored,     \* what localStorage holds under tabsStorageKey
    importing,  \* relationship imports whose files are being read
    origin,     \* per imported relationship entry, the tab its import began in
    uploads     \* portrait files handed to a FileReader, not yet read

appVars == <<tabs, activeTabId, relationshipMap, relationshipSelection, frames,
             reading, nextTab, download, away, orderly, titles, stored,
             importing, origin, uploads>>

vars == <<identity, notes, checked, disabled, sliders, traits, traitDisabled,
          counter, portraitData, pending, ops, last, appVars>>

Dom ==
    [identity |-> identity, notes |-> notes, checked |-> checked,
     disabled |-> disabled, sliders |-> sliders, traits |-> traits,
     traitDisabled |-> traitDisabled, counter |-> counter,
     portraitData |-> portraitData]

SetDom(N) ==
    /\ identity' = N.identity
    /\ notes' = N.notes
    /\ checked' = N.checked
    /\ disabled' = N.disabled
    /\ sliders' = N.sliders
    /\ traits' = N.traits
    /\ traitDisabled' = N.traitDisabled
    /\ counter' = N.counter
    /\ portraitData' = N.portraitData

\* the controls as N has them, at start
SetDomTo(N) ==
    /\ identity = N.identity
    /\ notes = N.notes
    /\ checked = N.checked
    /\ disabled = N.disabled
    /\ sliders = N.sliders
    /\ traits = N.traits
    /\ traitDisabled = N.traitDisabled
    /\ counter = N.counter
    /\ portraitData = N.portraitData

\* an operation, its arguments and the portrait held when it began
Op(name, g, s, k, doc) ==
    [op |-> name, g |-> g, s |-> s, k |-> k, doc |-> doc, held |-> portraitData]

\* the form as rendered (part_000 1082-1590)
RenderedForm ==
    [identity |-> IdentityDefault,
     notes |-> DefaultNotes,
     checked |-> [g \in SectionNames |-> [s \in 1..StatCount[g] |-> {}]],
     disabled |-> [g \in SectionNames |-> [s \in 1..StatCount[g] |-> {}]],
     sliders |-> [g \in SectionNames |-> [j \in 1..SliderCount[g] |-> SliderDefault]],
     traits |-> [g \in SectionNames |-> [t \in 1..TraitCount[g] |-> FALSE]],
     traitDisabled |-> [g \in SectionNames |-> [t \in 1..TraitCount[g] |-> FALSE]],
     counter |-> [g \in SectionNames |-> 0],
     portraitData |-> ""]

\* initSheet (part_002 682-879): the listeners are attached and the points
\* display is brought up to date
initSheet == updatePointsDisplay(RenderedForm)

\* defaultsSnapshot (part_002 872-874): getState() of the form as rendered
defaultsSnapshot == getSheetSnapshot(initSheet)

\* resetToDefaults (part_002 486-499)
resetToDefaults(D) ==
    Then(applySnapshot(D, defaultsSnapshot), LAMBDA A :
        updatePointsDisplay([A EXCEPT !.portraitData = ""]))

\* mutant: the loop passes over the stat pips
DefaultFieldsButPips(D) ==
    [D EXCEPT
        !.traits = [g \in SectionNames |-> [t \in 1..TraitCount[g] |-> FALSE]],
        !.sliders = [g \in SectionNames |-> [j \in 1..SliderCount[g] |-> SliderMin]],
        !.identity = IdentityDefault,
        !.notes = [i \in 1..Len(D.notes) |-> [D.notes[i] EXCEPT !.text = ""]]]

\* resetSheetToDefaults, the loop over the frame's inputs and textareas
\* (part_002 545-558): every checkbox, the stat pips included, takes
\* defaultChecked, a range input its min, a text control its defaultValue
DefaultFields(D) ==
    [D EXCEPT
        !.checked = [g \in SectionNames |-> [s \in 1..StatCount[g] |-> {}]],
        !.traits = [g \in SectionNames |-> [t \in 1..TraitCount[g] |-> FALSE]],
        !.sliders = [g \in SectionNames |-> [j \in 1..SliderCount[g] |-> SliderMin]],
        !.identity = IdentityDefault,
        !.notes = [i \in 1..Len(D.notes) |-> [D.notes[i] EXCEPT !.text = ""]]]

\* resetSheetToDefaults (part_002 543-561)
resetSheetToDefaults(D) ==
    Then(resetToDefaults(D), LAMBDA R : updatePointsDisplay(DefaultFields(R)))

RECURSIVE resetStatDotsInFrame(_, _)
\* resetStatDotsIn(frame) (part_002 566-576): the stats of every section, in
\* document order
resetStatDotsInFrame(D, n) ==
    IF n > Len(Sections) THEN D
    ELSE Then(resetStatDotsIn(D, Sections[n]),
              LAMBDA N : resetStatDotsInFrame(N, n + 1))

\* resetTogglesIn(frame) (part_002 588-597)
resetTogglesInFrame(D) ==
    [D EXCEPT !.traits = [g \in SectionNames |-> [t \in 1..TraitCount[g] |-> FALSE]],
              !.traitDisabled =
                  [g \in SectionNames |-> [t \in 1..TraitCount[g] |-> FALSE]]]

\* resetSheetToBlank, the loop over the frame's inputs and textareas
\* (part_002 604-614): a range input takes its min, a text control ""
BlankFields(D) ==
    [D EXCEPT
        !.sliders = [g \in SectionNames |-> [j \in 1..SliderCount[g] |-> SliderMin]],
        !.identity = [k \in IdentityKeySet |-> ""],
        !.notes = [i \in 1..Len(D.notes) |-> [D.notes[i] EXCEPT !.text = ""]]]

\* resetSheetToBlank without its scheduled update (part_002 599-615)
resetSheetToBlank(D) ==
    Then(resetToDefaults(D), LAMBDA R :
        Then(resetStatDotsInFrame(R, 1), LAMBDA S :
            BlankFields(resetTogglesInFrame(S))))

Init ==
    /\ identity = initSheet.identity
    /\ notes = initSheet.notes
    /\ checked = initSheet.checked
    /\ disabled = initSheet.disabled
    /\ sliders = initSheet.sliders
    /\ traits = initSheet.traits
    /\ traitDisabled = initSheet.traitDisabled
    /\ counter = initSheet.counter
    /\ portraitData = initSheet.portraitData
    /\ pending = 0
    /\ uploads = <<>>
    /\ ops = 0
    /\ last = Op("initSheet", "", 0, 0, NullDoc)
    /\ tabs = createInitialTabs(None).tabs
    /\ activeTabId = createInitialTabs(None).activeId
    /\ relationshipMap = createRelationshipDefaults
    /\ relationshipSelection = createRelationshipSelectionDefaults
    /\ frames = <<>>
    /\ reading = <<>>
    /\ nextTab = 2
    /\ download = None
    /\ away = <<>>
    /\ orderly = TRUE
    /\ titles = createInitialTabs(None).titles
    /\ stored = None
    /\ importing = <<>>
    /\ origin = <<>>

\* the user clicks pip k of stat s of section g
ClickPip(g, s, k) ==
    /\ ops < MaxOps
    /\ SetDom(UserClick(Dom, g, s, k))
    /\ ops' = ops + 1
    /\ last' = Op("ClickPip", g, s, k, NullDoc)
    /\ UNCHANGED appVars
    /\ UNCHANGED pending

\* the user clicks the top pip of every stat of section g, last stat first
FillGroup(g) ==
    /\ ops < MaxOps
    /\ SetDom(FillFrom(Dom, g, StatCount[g]))
    /\ ops' = ops + 1
    /\ last' = Op("FillGroup", g, 0, 0, NullDoc)
    /\ UNCHANGED appVars
    /\ UNCHANGED pending

\* the user clicks trait checkbox t of section g
ToggleTrait(g, t) ==
    /\ ops < MaxOps
    /\ t <= TraitCount[g]
    /\ ~traitDisabled[g][t]
    /\ SetDom(TraitChange(Dom, g, t))
    /\ ops' = ops + 1
    /\ last' = Op("ToggleTrait", g, t, 0, NullDoc)
    /\ UNCHANGED appVars
    /\ UNCHANGED pending

\* the user moves range input j of section g to v
MoveSlider(g, j, v) ==
    /\ ops < MaxOps
    /\ j <= SliderCount[g]
    /\ SetDom(SliderInput(Dom, g, j, v))
    /\ ops' = ops + 1
    /\ last' = Op("MoveSlider", g, j, v, NullDoc)
    /\ UNCHANGED appVars
    /\ UNCHANGED pending

\* resetSectionPoints (part_002 628-634)
ResetSection(g) ==
    /\ ops < MaxOps
    /\ SetDom(resetSectionNow(Dom, g))
    /\ pending' = pending + 1
    /\ ops' = ops + 1
    /\ last' = Op("resetSectionPoints", g, 0, 0, NullDoc)
    /\ UNCHANGED appVars

\* the callback of schedulePointsUpdate (part_002 286-293)
RunPointsUpdate ==
    /\ pending > 0
    /\ SetDom(updatePointsDisplay(Dom))
    /\ pending' = pending - 1
    /\ last' = Op("updatePointsDisplay", "", 0, 0, NullDoc)
    /\ UNCHANGED appVars
    /\ UNCHANGED ops

\* the user types into the Name input
EditIdentity(v) ==
    /\ ops < MaxOps
    /\ identity' = [identity EXCEPT !["Name"] = v]
    /\ ops' = ops + 1
    /\ last' = Op("EditIdentity", "", 0, 0, NullDoc)
    /\ UNCHANGED appVars
    /\ UNCHANGED <<notes, checked, disabled, sliders, traits, traitDisabled,
                   counter, portraitData, pending>>

\* the user types into the textarea of note section i
EditNote(i, text) ==
    /\ ops < MaxOps
    /\ i <= Len(notes)
    /\ notes' = [notes EXCEPT ![i].text = text]
    /\ ops' = ops + 1
    /\ last' = Op("EditNote", "", i, 0, NullDoc)
    /\ UNCHANGED appVars
    /\ UNCHANGED <<identity, checked, disabled, sliders, traits, traitDisabled,
                   counter, portraitData, pending>>

\* the user picks a title and clicks Add
AddNote(title) ==
    /\ ops < MaxOps
    /\ SetDom(addNote(Dom, title))
    /\ ops' = ops + 1
    /\ last' = Op("AddNote", title, 0, 0, NullDoc)
    /\ UNCHANGED appVars
    /\ UNCHANGED pending

\* the user clicks Remove in note section i
RemoveNote(i) ==
    /\ ops < MaxOps
    /\ i <= Len(notes)
    /\ SetDom(removeNote(Dom, i))
    /\ ops' = ops + 1
    /\ last' = Op("RemoveNote", "", i, 0, NullDoc)
    /\ UNCHANGED appVars
    /\ UNCHANGED pending

\* the FileReader of the portrait input has read a file (part_002 704-720)
PortraitLoaded(p) ==
    /\ ops < MaxOps
    /\ portraitData' = p
    /\ ops' = ops + 1
    /\ last' = Op("PortraitLoaded", "", 0, 0, NullDoc)
    /\ UNCHANGED appVars
    /\ UNCHANGED <<identity, notes, checked, disabled, sliders, traits,
                   traitDisabled, counter, pending>>

\* applySheetSnapshot(getSheetSnapshot())
RoundTrip ==
    /\ ops < MaxOps
    /\ SetDom(applySheetSnapshot(Dom, getSheetSnapshot(Dom)))
    /\ ops' = ops + 1
    /\ last' = Op("RoundTrip", "", 0, 0, NullDoc)
    /\ UNCHANGED appVars
    /\ UNCHANGED pending

\* applySheetSnapshot(doc)
ApplySheetSnapshot(doc) ==
    /\ ops < MaxOps
    /\ SetDom(applySheetSnapshot(Dom, doc))
    /\ ops' = ops + 1
    /\ last' = Op("applySheetSnapshot", "", 0, 0, doc)
    /\ UNCHANGED appVars
    /\ UNCHANGED pending

\* resetSheetToDefaults(); the document the sheet held is kept in last.doc
ResetSheetToDefaults ==
    /\ ops < MaxOps
    /\ SetDom(resetSheetToDefaults(Dom))
    /\ ops' = ops + 1
    /\ last' = Op("resetSheetToDefaults", "", 0, 1, getSheetSnapshot(Dom))
    /\ UNCHANGED appVars
    /\ UNCHANGED pending

\* resetSheetToDefaults() called again right after resetSheetToDefaults()
ResetSheetToDefaultsAgain ==
    /\ last.op = "resetSheetToDefaults"
    /\ last.k = 1
    /\ SetDom(resetSheetToDefaults(Dom))
    /\ last' = Op("resetSheetToDefaults", "", 0, 2, last.doc)
    /\ UNCHANGED appVars
    /\ UNCHANGED <<pending, ops>>

\* resetSheetToBlank()
ResetSheetToBlank ==
    /\ ops < MaxOps
    /\ SetDom(resetSheetToBlank(Dom))
    /\ pending' = pending + 1
    /\ ops' = ops + 1
    /\ last' = Op("resetSheetToBlank", "", 0, 0, NullDoc)
    /\ UNCHANGED appVars

NextEdit ==
    \/ \E g \in SectionNames : \E s \in ClickStats : \E k \in 1..PipCount[g] :
          ClickPip(g, s, k)
    \/ \E g \in SectionNames : FillGroup(g)
    \/ \E g \in SectionNames : \E t \in ClickTraits : ToggleTrait(g, t)
    \/ \E g \in SectionNames : \E j \in ClickSliders : \E v \in SliderInputs :
          MoveSlider(g, j, v)
    \/ \E g \in SectionNames : ResetSection(g)
    \/ RunPointsUpdate
    \/ \E v \in IdentityInputs : EditIdentity(v)
    \/ \E i \in NoteTargets : \E text \in NoteInputs : EditNote(i, text)
    \/ \E title \in NoteChoices : AddNote(title)
    \/ \E i \in NoteTargets : RemoveNote(i)
    \/ \E p \in PortraitInputs : PortraitLoaded(p)
    \/ RoundTrip

Next ==
    \/ NextEdit
    \/ \E doc \in Docs : ApplySheetSnapshot(doc)

\* the sheet under the user's edits
SpecEdit == Init /\ [][NextEdit]_vars

\* the sheet under the user's edits and the documents loaded into it
Spec == Init /\ [][Next]_vars

NextReset ==
    \/ \E doc \in Docs : ApplySheetSnapshot(doc)
    \/ \E g \in SectionNames : FillGroup(g)
    \/ \E g \in SectionNames : \E t \in ClickTraits : ToggleTrait(g, t)
    \/ \E g \in SectionNames : \E j \in ClickSliders : \E v \in SliderInputs :
          MoveSlider(g, j, v)
    \/ \E v \in IdentityInputs : EditIdentity(v)
    \/ \E i \in NoteTargets : \E text \in NoteInputs : EditNote(i, text)
    \/ \E title \in NoteChoices : AddNote(title)
    \/ \E i \in NoteTargets : RemoveNote(i)
    \/ \E p \in PortraitInputs : PortraitLoaded(p)
    \/ RunPointsUpdate
    \/ ResetSheetToDefaults
    \/ ResetSheetToDefaultsAgain
    \/ ResetSheetToBlank

\* the sheet under edits, loaded documents and the resets of the sheet module
SpecReset == Init /\ [][NextReset]_vars

(***************************************************************************)
(* The tabbed application: what localStorage may hold when it starts, and  *)
(* its handlers.                                                           *)
(***************************************************************************)
\* a stored tab list of two: a tab never filled, and a tab saved with a
\* name, a filled stat and a relationship; the first was active
StoredSheet ==
    getSheetSnapshot(updatePointsDisplay(
        [RenderedForm EXCEPT !.identity["Name"] = "Bram",
                             !.checked["social"][6] = 1..3]))

StoredTabs ==
    Some(stringify(1,
                   <<NewTab(1, NullDoc, createRelationshipDefaults,
                            createRelationshipSelectionDefaults),
                     NewTab(2, StoredSheet,
                            [createRelationshipDefaults EXCEPT
                                !.friends = <<[id |-> "r5", name |-> "Cy"]>>],
                            [createRelationshipSelectionDefaults EXCEPT
                                !.friends = "r5"])>>,
                   (1 :> "Untitled" @@ 2 :> "Bram")))

\* the persist effect (part_000 281-294): it runs after every render that
\* changed the tab list or the active tab id
Persist == stored' = Some(stringify(activeTabId', tabs', titles'))

\* the application mounted over what localStorage holds (part_000 202-205,
\* 260-310): initSheet, then the active tab's document and registry
\* applied, the title of the active tab taken from the Name input, and the
\* blob written
Mounted(blob) ==
    \E initial \in {createInitialTabs(blob)} :
    \E activeTab \in {FindTab(initial.tabs, initial.activeId)} :
    \E applied \in {applySheetSnapshot(initSheet, Get(activeTab).data)} :
    \E shown \in {handleInput(initial.titles, initial.activeId, applied)} :
        /\ SetDomTo(applied)
        /\ pending = 0
        /\ uploads = <<>>
        /\ ops = 0
        /\ last = Op("initSheet", "", 0, 0, NullDoc)
        /\ tabs = initial.tabs
        /\ activeTabId = initial.activeId
        /\ relationshipMap = normalizeRelationshipMap(TabRelationships(activeTab))
        /\ relationshipSelection =
              normalizeRelationshipSelection(TabRelationshipSelection(activeTab))
        /\ frames = <<>>
        /\ reading = <<>>
        /\ nextTab = MaxOf({initial.tabs[i].id : i \in 1..Len(initial.tabs)}) + 1
        /\ download = None
        /\ away = <<>>
        /\ orderly = TRUE
        /\ titles = shown
        /\ stored = Some(stringify(initial.activeId, initial.tabs, shown))
        /\ importing = <<>>
        /\ origin = <<>>

InitTabs == Mounted(StoredTabs)

\* the live document and registry, as kept for a tab that is left
Live ==
    [data |-> getSheetSnapshot(Dom), relationships |-> relationshipMap,
     relationshipSelection |-> relationshipSelection]

\* a callback handed to requestAnimationFrame
Frame(kind, tabId, doc) == [kind |-> kind, tabId |-> tabId, doc |-> doc]

\* setActiveTab (part_000 635-641)
SetActiveTab(tabId) ==
    /\ ops < MaxTabOps
    /\ tabId # activeTabId
    /\ tabs' = commitActiveTab(tabs, activeTabId, Dom, relationshipMap,
                               relationshipSelection)
    /\ activeTabId' = tabId
    /\ frames' = Append(frames, Frame("applyTabSnapshot", tabId, NullDoc))
    /\ away' = (activeTabId :> Live) @@ away
    /\ orderly' = (orderly /\ frames = <<>> /\ reading = <<>>)
    /\ ops' = ops + 1
    /\ last' = Op("setActiveTab", "", 0, tabId, NullDoc)
    /\ titles' = handleInput(titles, tabId, Dom)
    /\ UNCHANGED <<identity, notes, checked, disabled, sliders, traits,
                   traitDisabled, counter, portraitData, pending, uploads,
                   relationshipMap, relationshipSelection, reading, nextTab,
                   download, importing, origin>>
    /\ Persist

\* applyTabSnapshot (part_000 604-625)
ApplyTabSnapshot(tabId) ==
    LET target == FindTab(tabs, tabId)
        blank == Has(target) /\ Get(target).data.kind = "blank"
        data == IF blank THEN buildBlankSnapshot
                ELSE IF Has(target) THEN Get(target).data ELSE NullDoc
    IN  /\ SetDom(applySheetSnapshot(Dom, data))
        /\ tabs' = IF blank
                   THEN [i \in 1..Len(tabs) |->
                            IF tabs[i].id = tabId
                            THEN [tabs[i] EXCEPT !.data = buildBlankSnapshot]
                            ELSE tabs[i]]
                   ELSE tabs
        /\ relationshipMap' = normalizeRelationshipMap(TabRelationships(target))
        /\ relationshipSelection' =
              normalizeRelationshipSelection(TabRelationshipSelection(target))
        /\ titles' = TitleFromSnapshot(titles, tabId,
                                        IF Has(target) THEN Get(target).data
                                        ELSE NullDoc)
        /\ last' = Op("applyTabSnapshot", "", 0, tabId, data)

\* the browser runs the oldest callback handed to requestAnimationFrame
\* (part_000 627-633, 664-668)
RunFrame ==
    /\ frames # <<>>
    /\ IF Head(frames).kind = "applyTabSnapshot"
       THEN ApplyTabSnapshot(Head(frames).tabId)
       ELSE /\ SetDom(applySheetSnapshot(Dom, Head(frames).doc))
            /\ last' = Op("applySheetSnapshot", "", 0, Head(frames).tabId,
                          Head(frames).doc)
            /\ UNCHANGED <<tabs, relationshipMap, relationshipSelection, titles>>
    /\ frames' = Tail(frames)
    /\ UNCHANGED <<pending, uploads, ops, activeTabId, reading, nextTab, download, away,
                   orderly, importing, origin>>
    /\ Persist

\* createNewTab (part_000 643-669)
CreateNewTab ==
    /\ ops < MaxTabOps
    /\ SetDom(applySheetSnapshot(Dom, buildDefaultSnapshot))
    /\ tabs' = Append(commitActiveTab(tabs, activeTabId, Dom, relationshipMap,
                                      relationshipSelection),
                      NewTab(nextTab, buildDefaultSnapshot,
                             createRelationshipDefaults,
                             createRelationshipSelectionDefaults))
    /\ activeTabId' = nextTab
    /\ relationshipMap' = createRelationshipDefaults
    /\ relationshipSelection' = createRelationshipSelectionDefaults
    /\ frames' = Append(frames, Frame("applySheetSnapshot", nextTab,
                                      buildDefaultSnapshot))
    /\ nextTab' = nextTab + 1
    /\ away' = (activeTabId :> Live) @@ away
    /\ orderly' = (orderly /\ frames = <<>> /\ reading = <<>>)
    /\ ops' = ops + 1
    /\ last' = Op("createNewTab", "", 0, nextTab, buildDefaultSnapshot)
    /\ titles' = handleInput(titles @@ (nextTab :> createUntitledTitle(Len(tabs) + 1)),
                             nextTab, Dom')
    /\ UNCHANGED <<pending, uploads, reading, download, importing, origin>>
    /\ Persist

LastTabNever(tabList) == FALSE

\* removeTab: currentTabs.length <= 1 (part_000 674)
LastTab(tabList) == Len(tabList) <= 1

\* removeTab (part_000 671-687)
RemoveTab(tabId) ==
    /\ ops < MaxTabOps
    /\ ops' = ops + 1
    /\ last' = Op("removeTab", "", FindIndex(tabs, tabId), tabId, NullDoc)
    /\ UNCHANGED <<identity, notes, checked, disabled, sliders, traits,
                   traitDisabled, counter, portraitData, pending, uploads,
                   relationshipMap, relationshipSelection, reading, nextTab,
                   download, away, importing, origin>>
    /\ IF LastTab(tabs)
       THEN UNCHANGED <<tabs, activeTabId, frames, orderly, titles>>
       ELSE LET nextTabs == SelectSeq(tabs, LAMBDA tab : tab.id # tabId)
                wasActive == tabId = activeTabId
                kept == [id \in {nextTabs[i].id : i \in 1..Len(nextTabs)} |->
                            titles[id]]
            IN  /\ tabs' = nextTabs
                /\ IF wasActive /\ Len(nextTabs) > 0
                   THEN LET next == FallbackTab(nextTabs, FindIndex(tabs, tabId))
                        IN  /\ activeTabId' = next.id
                            /\ titles' = handleInput(kept, next.id, Dom)
                            /\ frames' = Append(frames,
                                  Frame("applyTabSnapshot", next.id, NullDoc))
                            /\ orderly' = (orderly /\ frames = <<>> /\ reading = <<>>)
                   ELSE /\ titles' = kept
                        /\ UNCHANGED <<activeTabId, frames, orderly>>
    /\ Persist

\* triggerSave (part_000 537-553)
TriggerSave ==
    /\ ops < MaxTabOps
    /\ tabs' = commitActiveTab(tabs, activeTabId, Dom, relationshipMap,
                               relationshipSelection)
    /\ orderly' = (orderly /\ frames = <<>>)
    /\ ops' = ops + 1
    /\ last' = Op("triggerSave", "", 0, activeTabId, NullDoc)
    /\ UNCHANGED <<identity, notes, checked, disabled, sliders, traits,
                   traitDisabled, counter, portraitData, pending, uploads, activeTabId,
                   relationshipMap, relationshipSelection, frames, reading,
                   nextTab, download, away, titles, importing, origin>>
    /\ Persist

\* triggerExport (part_000 516-535): the payload goes to a file
TriggerExport ==
    /\ ops < MaxTabOps
    /\ download' = Some(Live)
    /\ ops' = ops + 1
    /\ last' = Op("triggerExport", "", 0, activeTabId, NullDoc)
    /\ UNCHANGED <<identity, notes, checked, disabled, sliders, traits,
                   traitDisabled, counter, portraitData, pending, uploads, tabs,
                   activeTabId, relationshipMap, relationshipSelection, frames,
                   reading, nextTab, away, orderly, titles, stored, importing, origin>>

\* handleImportTab up to `await file.text()` (part_000 689-696): the handler
\* holds the state of the render it was created in
ImportFile(file) ==
    /\ ops < MaxTabOps
    /\ reading' = Append(reading,
          [file |-> file, activeTabId |-> activeTabId,
           relationshipMap |-> relationshipMap,
           relationshipSelection |-> relationshipSelection])
    /\ ops' = ops + 1
    /\ last' = Op("importFile", "", 0, activeTabId, NullDoc)
    /\ UNCHANGED <<identity, notes, checked, disabled, sliders, traits,
                   traitDisabled, counter, portraitData, pending, uploads, tabs,
                   activeTabId, relationshipMap, relationshipSelection, frames,
                   nextTab, download, away, orderly, titles, stored, importing, origin>>

ParsedAlways(file) == TRUE

\* JSON.parse(text) returns (part_000 697); the data of a file it rejects
\* is never looked at
Parsed(file) == file.valid

\* what a handler holds is what the application shows
HeldIsCurrent(held) ==
    /\ held.activeTabId = activeTabId
    /\ held.relationshipMap = relationshipMap
    /\ held.relationshipSelection = relationshipSelection

\* handleImportTab once the text of read i has arrived (part_000 697-725)
HandleImportTab(i) ==
    LET held == reading[i]
        file == held.file
    IN  /\ reading' = [j \in 1..(Len(reading) - 1) |->
                          IF j < i THEN reading[j] ELSE reading[j + 1]]
        /\ UNCHANGED <<pending, uploads, ops, frames, download, importing, origin>>
        /\ IF Parsed(file)
           THEN /\ tabs' = Append(commitActiveTab(tabs, held.activeTabId, Dom,
                                                  held.relationshipMap,
                                                  held.relationshipSelection),
                                  NewTab(nextTab, file.data,
                                         normalizeRelationshipMap(file.relationships),
                                         normalizeRelationshipSelection(
                                             file.relationshipSelection)))
                /\ activeTabId' = nextTab
                /\ SetDom(applySheetSnapshot(Dom, file.data))
                /\ relationshipMap' = normalizeRelationshipMap(file.relationships)
                /\ relationshipSelection' =
                      normalizeRelationshipSelection(file.relationshipSelection)
                /\ nextTab' = nextTab + 1
                /\ away' = (activeTabId :> Live) @@ away
                /\ orderly' = (orderly /\ frames = <<>> /\ HeldIsCurrent(held))
                /\ titles' = handleInput(titles @@ (nextTab :> ImportTitle(file)),
                                         nextTab, Dom')
                /\ last' = Op("handleImportTab", "", 0, nextTab, file.data)
           ELSE /\ last' = Op("handleImportTab", "", 0, 0, NullDoc)
                /\ UNCHANGED <<identity, notes, checked, disabled, sliders,
                               traits, traitDisabled, counter, portraitData,
                               tabs, activeTabId, relationshipMap,
                               relationshipSelection, nextTab, away, orderly,
                               titles>>
        /\ Persist

\* handleRelationshipImport (part_000 774-794), the files read: the entry
\* is put first in the registry of target and selected if none is
AddRelationship(target, entry) ==
    /\ ops < MaxTabOps
    /\ \A i \in 1..Len(relationshipMap[target]) : relationshipMap[target][i].id # entry.id
    /\ relationshipMap' = [relationshipMap EXCEPT ![target] = <<entry>> \o @]
    /\ relationshipSelection' =
          IF relationshipSelection[target] = ""
          THEN [relationshipSelection EXCEPT ![target] = entry.id]
          ELSE relationshipSelection
    /\ ops' = ops + 1
    /\ last' = Op("handleRelationshipImport", target, 0, 0, NullDoc)
    /\ UNCHANGED <<identity, notes, checked, disabled, sliders, traits,
                   traitDisabled, counter, portraitData, pending, uploads, tabs,
                   activeTabId, frames, reading, nextTab, download, away,
                   orderly, titles, stored, importing, origin>>

\* the user types into the Name input of the tabbed application
TypeName(v) ==
    /\ ops < MaxTabOps
    /\ identity' = [identity EXCEPT !["Name"] = v]
    /\ ops' = ops + 1
    /\ last' = Op("EditIdentity", "", 0, 0, NullDoc)
    /\ UNCHANGED <<notes, checked, disabled, sliders, traits, traitDisabled,
                   counter, portraitData, pending, uploads, tabs, activeTabId,
                   relationshipMap, relationshipSelection, frames, reading,
                   nextTab, download, away, orderly, importing, origin>>
    /\ titles' = handleInput(titles, activeTabId, Dom')
    /\ Persist

\* the ids of the tabs shown in the tab bar
ListedIds == {tabs[i].id : i \in 1..Len(tabs)}

NextTabs ==
    \/ \E v \in IdentityInputs : TypeName(v)
    \/ \E target \in RelationshipTargets : \E entry \in RelationshipInputs :
          AddRelationship(target, entry)
    \/ \E tabId \in ListedIds : SetActiveTab(tabId)
    \/ RunFrame
    \/ CreateNewTab
    \/ \E tabId \in ListedIds : RemoveTab(tabId)
    \/ TriggerSave
    \/ TriggerExport
    \/ \E file \in Files : ImportFile(file)
    \/ \E i \in 1..Len(reading) : HandleImportTab(i)

\* the tabbed application over a stored tab list
SpecTabs == InitTabs /\ [][NextTabs]_vars

\* an id no tab of the list has
UnlistedIds == {0}

\* setActiveTab and removeTab called with an id that is not in the list
NextUnlisted ==
    \/ \E tabId \in UnlistedIds : SetActiveTab(tabId)
    \/ \E tabId \in UnlistedIds : RemoveTab(tabId)

\* the tabbed application, its handlers also called with unlisted ids
SpecAnyId == InitTabs /\ [][NextTabs \/ NextUnlisted]_vars

\* stored tab lists of two whose second tab holds the marker in place of a
\* document: the first tab was active, or the second
MarkerTabs ==
    <<NewTab(1, StoredSheet, createRelationshipDefaults,
             createRelationshipSelectionDefaults),
      NewTab(2, BlankMarker, createRelationshipDefaults,
             createRelationshipSelectionDefaults)>>

MarkerStores ==
    {Some(stringify(active, MarkerTabs, (1 :> "Bram" @@ 2 :> "Untitled"))) :
        active \in {1, 2}}

InitMarker == \E blob \in MarkerStores : Mounted(blob)

\* the tabbed application over a stored tab list with a marker
SpecMarker == InitMarker /\ [][NextTabs]_vars

(***************************************************************************)
(* The relationship registry of the active tab: its handlers, and the      *)
(* import of entries from files, which ends when every file is read.       *)
(***************************************************************************)
\* the kinds whose dropdown the exploration opens, the relation text it
\* types, and the batches of files it picks
RelationshipKinds == {"family", "friends"}

RelationInputs == {"aunt"}

RelationshipBatches == {<<FileWithin, FileInvalid, FileOver>>, <<FileInvalid>>}

\* makeRelationshipId (part_000 732-737): an id no other entry has; stamp
\* numbers the import and index the file in its batch
makeRelationshipId(stamp, index) ==
    "rel-" \o ToString(stamp) \o "-" \o ToString(index)

\* getRelationshipName (part_000 739-749)
getRelationshipName(data, fileName) ==
    LET cleaned == IF Has(data.identity) /\ "Name" \in DOMAIN Get(data.identity)
                   THEN Trim(Get(data.identity)["Name"])
                   ELSE ""
    IN  IF cleaned # "" THEN cleaned
        ELSE IF BaseName(fileName) # "" THEN BaseName(fileName)
        ELSE "Imported Sheet"

\* parseRelationshipFile (part_000 751-768): the entry of a file, None when
\* its text does not parse
parseRelationshipFile(file, target, stamp, index) ==
    IF Parsed(file)
    THEN Some(IF target = "family"
              THEN [id |-> makeRelationshipId(stamp, index),
                    name |-> getRelationshipName(file.data, file.name),
                    relation |-> ""]
              ELSE [id |-> makeRelationshipId(stamp, index),
                    name |-> getRelationshipName(file.data, file.name)])
    ELSE None

\* entries.filter((entry) => entry) over the files of a batch (part_000
\* 776-779)
ValidEntries(files, target, stamp) ==
    LET entries == [index \in 1..Len(files) |->
                      parseRelationshipFile(files[index], target, stamp, index)]
        kept == SelectSeq(entries, LAMBDA entry : Has(entry))
    IN  [j \in 1..Len(kept) |-> Get(kept[j])]

\* mutant: the new entries are put behind the list
Appended(valid, list) == list \o valid
\* [...valid, ...prev[target]] (part_000 783)
Prepended(valid, list) == valid \o list

\* updateRelationship (part_000 795-806)
updateRelationship(map, target, id, relation) ==
    [map EXCEPT ![target] =
        [i \in 1..Len(map[target]) |->
            IF map[target][i].id = id
            THEN [relation |-> relation] @@ map[target][i]
            ELSE map[target][i]]]

\* removeRelationship, the registry (part_000 809-812)
removeRelationshipEntry(map, target, id) ==
    [map EXCEPT ![target] = SelectSeq(map[target], LAMBDA entry : entry.id # id)]

\* removeRelationship, the selection (part_000 813-816)
removeRelationshipSelection(selection, target, id) ==
    [selection EXCEPT ![target] = IF selection[target] = id THEN "" ELSE selection[target]]

\* mutant: confirming clears the selection of every kind
confirmEveryRelationshipEdit(selection, target) == createRelationshipSelectionDefaults
\* confirmRelationshipEdit (part_000 819-824)
confirmRelationshipEdit(selection, target) == [selection EXCEPT ![target] = ""]

\* the entry the panel of kind target shows (part_000 826-830)
activeRelationship(target) ==
    LET shown == SelectSeq(relationshipMap[target],
                           LAMBDA entry : entry.id = relationshipSelection[target])
    IN  IF relationshipSelection[target] # "" /\ Len(shown) > 0
        THEN Some(shown[1]) ELSE None

\* what a handler of the registry leaves alone
RegistryFrame ==
    UNCHANGED <<identity, notes, checked, disabled, sliders, traits,
                traitDisabled, counter, portraitData, pending, uploads, tabs, activeTabId,
                frames, reading, nextTab, download, away, orderly, titles,
                stored, importing, origin>>

\* an item of the dropdown of kind target is clicked (part_000 831-891)
SelectRelationship(target, id) ==
    /\ ops < MaxTabOps
    /\ \E i \in 1..Len(relationshipMap[target]) : relationshipMap[target][i].id = id
    /\ relationshipSelection' = [relationshipSelection EXCEPT ![target] = id]
    /\ ops' = ops + 1
    /\ last' = Op("selectRelationship", target, 0, 0, NullDoc)
    /\ UNCHANGED relationshipMap
    /\ RegistryFrame

\* the relation text of the family entry shown is edited (part_000
\* 1310-1320)
UpdateRelationship(relation) ==
    /\ ops < MaxTabOps
    /\ Has(activeRelationship("family"))
    /\ relationshipMap' = updateRelationship(relationshipMap, "family",
                              Get(activeRelationship("family")).id, relation)
    /\ ops' = ops + 1
    /\ last' = Op("updateRelationship", "family", 0, 0, NullDoc)
    /\ UNCHANGED relationshipSelection
    /\ RegistryFrame

\* the Confirm button of the entry shown (part_000 1321-1336)
ConfirmRelationshipEdit(target) ==
    /\ ops < MaxTabOps
    /\ Has(activeRelationship(target))
    /\ relationshipSelection' = confirmRelationshipEdit(relationshipSelection, target)
    /\ ops' = ops + 1
    /\ last' = Op("confirmRelationshipEdit", target, 0, 0, NullDoc)
    /\ UNCHANGED relationshipMap
    /\ RegistryFrame

\* an entry of kind target is deleted from the dropdown, or the entry shown
\* with the Remove button (part_000 808-817, 845, 1343)
RemoveRelationship(target, id) ==
    /\ ops < MaxTabOps
    /\ \E i \in 1..Len(relationshipMap[target]) : relationshipMap[target][i].id = id
    /\ relationshipMap' = removeRelationshipEntry(relationshipMap, target, id)
    /\ relationshipSelection' =
          removeRelationshipSelection(relationshipSelection, target, id)
    /\ ops' = ops + 1
    /\ last' = Op("removeRelationship", target, 0, 0, NullDoc)
    /\ RegistryFrame

\* handleRelationshipImport up to `await Promise.all` (part_000 770-778):
\* the handler holds the kind and the selection of the render it was
\* created in
StartRelationshipImport(target, files) ==
    /\ ops < MaxTabOps
    /\ importing' = Append(importing,
          [target |-> target, files |-> files,
           relationshipSelection |-> relationshipSelection,
           startedIn |-> activeTabId, stamp |-> ops])
    /\ ops' = ops + 1
    /\ last' = Op("handleRelationshipImport", target, 0, activeTabId, NullDoc)
    /\ UNCHANGED <<identity, notes, checked, disabled, sliders, traits,
                   traitDisabled, counter, portraitData, pending, uploads, tabs,
                   activeTabId, relationshipMap, relationshipSelection, frames,
                   reading, nextTab, download, away, orderly, titles, stored,
                   origin>>

\* handleRelationshipImport once every file of import i is read (part_000
\* 779-792)
CompleteRelationshipImport(i) ==
    LET held == importing[i]
        target == held.target
        valid == ValidEntries(held.files, target, held.stamp)
    IN  /\ importing' = [j \in 1..(Len(importing) - 1) |->
                            IF j < i THEN importing[j] ELSE importing[j + 1]]
        /\ relationshipMap' =
              IF Len(valid) > 0
              THEN [relationshipMap EXCEPT
                       ![target] = Prepended(valid, relationshipMap[target])]
              ELSE relationshipMap
        /\ relationshipSelection' =
              IF Len(valid) > 0 /\ held.relationshipSelection[target] = ""
              THEN [relationshipSelection EXCEPT ![target] = valid[1].id]
              ELSE relationshipSelection
        /\ origin' = [id \in {valid[j].id : j \in 1..Len(valid)} |-> held.startedIn]
                        @@ origin
        /\ last' = [Op("relationshipsImported", target, Len(held.files),
                       held.startedIn, NullDoc) EXCEPT !.held = held]
        /\ UNCHANGED <<identity, notes, checked, disabled, sliders, traits,
                       traitDisabled, counter, portraitData, pending, uploads, ops, tabs,
                       activeTabId, frames, reading, nextTab, download, away,
                       orderly, titles, stored>>

\* a stored tab list of two whose first tab, the active one, has entries in
\* two kinds and a selection in one
StoredRelations ==
    Some(stringify(1,
                   <<NewTab(1, StoredSheet,
                            [createRelationshipDefaults EXCEPT
                                !.family = <<[id |-> "r5", name |-> "Cy", relation |-> ""],
                                             [id |-> "r6", name |-> "Di", relation |-> "aunt"]>>,
                                !.friends = <<[id |-> "r7", name |-> "Ed"]>>],
                            [createRelationshipSelectionDefaults EXCEPT
                                !.family = "r6"]),
                     NewTab(2, NullDoc, createRelationshipDefaults,
                            createRelationshipSelectionDefaults)>>,
                   (1 :> "Bram" @@ 2 :> "Untitled")))

InitRelations == Mounted(StoredRelations)

NextRelations ==
    \/ \E target \in RelationshipKinds :
          \E i \in 1..Len(relationshipMap[target]) :
             SelectRelationship(target, relationshipMap[target][i].id)
    \/ \E relation \in RelationInputs : UpdateRelationship(relation)
    \/ \E target \in RelationshipKinds : ConfirmRelationshipEdit(target)
    \/ \E target \in RelationshipKinds :
          \E i \in 1..Len(relationshipMap[target]) :
             RemoveRelationship(target, relationshipMap[target][i].id)
    \/ \E target \in RelationshipKinds : \E files \in RelationshipBatches :
          StartRelationshipImport(target, files)
    \/ \E i \in 1..Len(importing) : CompleteRelationshipImport(i)
    \/ \E tabId \in ListedIds : SetActiveTab(tabId)
    \/ RunFrame
    \/ CreateNewTab
    \/ TriggerSave

\* the tabbed application with the handlers of its relationship registry
SpecRelations == InitRelations /\ [][NextRelations]_vars

(***************************************************************************)
(* Startup.  What localStorage may hold when the application starts: the   *)
(* stored value is a blob of any shape, and Mount is the first render and  *)
(* its effects.                                                            *)
(***************************************************************************)
\* what a stored tab may have under id, title, data, relationships and
\* relationshipSelection: present and well-typed, ill-typed, or missing
StoredIds == {[string |-> TRUE, v |-> 1], [string |-> FALSE, v |-> 0]}

StoredTitles ==
    {[string |-> TRUE, v |-> "Bram"], [string |-> TRUE, v |-> " "],
     [string |-> FALSE, v |-> ""]}

StoredData == {None, Some(StoredSheet), Some(DocMalformed), Some(BlankMarker)}

StoredRelationships ==
    {None,
     Some("family" :> [array |-> TRUE, items |-> <<[id |-> "r5", name |-> "Cy"]>>]
          @@ "friends" :> [array |-> FALSE, items |-> <<>>])}

StoredSelections ==
    {None,
     Some("family" :> [string |-> TRUE, id |-> "r5"]
          @@ "love" :> [string |-> FALSE, id |-> ""])}

StoredEntries ==
    [id : StoredIds, title : StoredTitles, data : StoredData,
     relationships : StoredRelationships,
     relationshipSelection : StoredSelections]

\* a well-formed second tab, with id 2
StoredSecond ==
    [id |-> [string |-> TRUE, v |-> 2], title |-> [string |-> TRUE, v |-> "Dee"],
     data |-> Some(DocWithin), relationships |-> None,
     relationshipSelection |-> None]

\* the stored activeId: the id of the first or second well-formed entry, an
\* id no entry has, or not a string
StoredActiveIds ==
    {[string |-> TRUE, v |-> 1], [string |-> TRUE, v |-> 2],
     [string |-> TRUE, v |-> 9], [string |-> FALSE, v |-> 0]}

\* the values localStorage may hold: nothing, text that is not JSON, JSON
\* without an array under tabs, an empty array, one entry, two entries
StoredValues ==
    {None,
     Some([json |-> FALSE, tabsArray |-> FALSE, tabs |-> <<>>,
           activeId |-> [string |-> FALSE, v |-> 0]])}
    \cup {Some([json |-> TRUE, tabsArray |-> FALSE, tabs |-> <<>>, activeId |-> a]) :
             a \in StoredActiveIds}
    \cup {Some([json |-> TRUE, tabsArray |-> TRUE, tabs |-> <<>>, activeId |-> a]) :
             a \in StoredActiveIds}
    \cup {Some([json |-> TRUE, tabsArray |-> TRUE, tabs |-> <<e>>, activeId |-> a]) :
             e \in StoredEntries, a \in StoredActiveIds}
    \cup {Some([json |-> TRUE, tabsArray |-> TRUE, tabs |-> <<e, StoredSecond>>,
                activeId |-> a]) :
             e \in StoredEntries, a \in StoredActiveIds}

\* before the first render: the form is not there yet and localStorage
\* holds any of the values
InitStored ==
    /\ stored \in StoredValues
    /\ SetDomTo(RenderedForm)
    /\ pending = 0
    /\ uploads = <<>>
    /\ ops = 0
    /\ last = [Op("stored", "", 0, 0, NullDoc) EXCEPT !.held = ""]
    /\ tabs = <<>>
    /\ activeTabId = 0
    /\ relationshipMap = createRelationshipDefaults
    /\ relationshipSelection = createRelationshipSelectionDefaults
    /\ frames = <<>>
    /\ reading = <<>>
    /\ nextTab = 1
    /\ download = None
    /\ away = <<>>
    /\ orderly = TRUE
    /\ titles = <<>>
    /\ importing = <<>>
    /\ origin = <<>>

\* the first render and its effects (part_000 202-205, 260-310):
\* createInitialTabs, the blob written, initSheet, then the stored document
\* of the active tab applied, its registry and selection made live and its
\* title taken from the Name input; an exception of applySheetSnapshot
\* ends the effect where it is thrown
Mount ==
    \E initial \in {createInitialTabs(stored)} :
    \E activeTab \in {FindTab(initial.tabs, initial.activeId)} :
    \E data \in {IF Has(activeTab) THEN Get(activeTab).data ELSE NullDoc} :
    \E thrown \in {Throws(data)} :
    \E applied \in {IF thrown THEN hardResetSheet(initSheet)
                    ELSE applySheetSnapshot(initSheet, data)} :
    \E shown \in {IF thrown THEN initial.titles
                  ELSE handleInput(initial.titles, initial.activeId, applied)} :
        /\ last.op = "stored"
        /\ SetDom(applied)
        /\ tabs' = initial.tabs
        /\ activeTabId' = initial.activeId
        /\ titles' = shown
        /\ relationshipMap' =
              IF thrown THEN createRelationshipDefaults
              ELSE normalizeRelationshipMap(TabRelationships(activeTab))
        /\ relationshipSelection' =
              IF thrown THEN createRelationshipSelectionDefaults
              ELSE normalizeRelationshipSelection(TabRelationshipSelection(activeTab))
        /\ nextTab' = MaxOf({initial.tabs[i].id : i \in 1..Len(initial.tabs)}) + 1
        /\ last' = [op |-> IF thrown THEN "throw" ELSE "mount", g |-> "", s |-> 0,
                    k |-> initial.activeId, doc |-> data, held |-> stored]
        /\ UNCHANGED <<pending, uploads, ops, frames, reading, download, away, orderly,
                       importing, origin>>
        /\ Persist

NextStartup == Mount

\* the application started over any stored value
SpecStartup == InitStored /\ [][NextStartup]_vars

(***************************************************************************)
(* What the claims speak of.                                               *)
(***************************************************************************)
pointsUsed(g) == getSectionPointsUsed(Dom, g)

StatValue(g, s) == Cardinality(checked[g][s])

StatValues == [g \in SectionNames |-> [s \in 1..StatCount[g] |-> StatValue(g, s)]]

\* the live document: what getSheetSnapshot reads
Document == <<identity, notes, StatValues, sliders, traits, portraitData>>

WithinBudget == \A g \in SectionNames : pointsUsed(g) <= pointsCapBySection[g]

\* the points a section has left
remaining(D, g) == Max2(0, pointsCapBySection[g] - getSectionPointsUsed(D, g))

Loaded == last.op = "applySheetSnapshot"

\* the entry of a document's map m (optional) at position p, or dflt
Entry(m, p, dflt) == IF Has(m) /\ p \in DOMAIN Get(m) THEN Get(m)[p] ELSE dflt

\* the value a document asks for stat s of section g, limited to the pips
Wanted(doc, g, s) == Max2(0, Min2(PipCount[g], Entry(doc.stats[g], s, 0)))

RECURSIVE WantedSum(_, _, _)
WantedSum(doc, g, n) ==
    IF n = 0 THEN 0 ELSE Wanted(doc, g, n) + WantedSum(doc, g, n - 1)

\* the document asks for no more than the cap in every section
DocWithinBudget(doc) ==
    \A g \in SectionNames : WantedSum(doc, g, StatCount[g]) <= pointsCapBySection[g]

RECURSIVE RuleFill(_, _, _, _)
\* the values of rows s.. of section g when each is raised from 0 to what
\* doc asks, in row order, an increase being refused exactly when the
\* points of the other rows plus the desired value exceed the cap
RuleFill(doc, g, s, used) ==
    IF s > StatCount[g] THEN <<>>
    ELSE LET desired == Wanted(doc, g, s)
             v == IF used + desired > pointsCapBySection[g] THEN 0 ELSE desired
         IN  <<v>> \o RuleFill(doc, g, s + 1, used + v)

(***************************************************************************)
(* C1  From the default sheet, after any sequence of pip clicks, trait     *)
(* toggles and group resets, every group's points used (filled pips plus,  *)
(* outside mind and social, checked traits) are at most the group's cap.   *)
(***************************************************************************)
C1_BudgetInvariant == WithinBudget

\* a click on an empty stat of social is refused with social at its cap
C1_RefusedAtCap ==
    /\ last.op = "ClickPip"
    /\ last.g = "social"
    /\ pointsUsed("social") = pointsCapBySection["social"]
    /\ StatValue("social", last.s) = 0

(***************************************************************************)
(* C2  An increase of a stat from current to desired is refused exactly    *)
(* when (pointsUsed - current) + desired > cap, and a refused increase     *)
(* leaves every stat of the group as it was: for the clicks of the user,   *)
(* and for the increases applySheetSnapshot makes for a version-2 document *)
(* on a sheet that was within budget.                                      *)
(***************************************************************************)
C2_ClickStep ==
    last'.op = "ClickPip" =>
        LET g == last'.g
            s == last'.s
            desired == last'.k
            current == StatValue(g, s)
            over == (pointsUsed(g) - current) + desired > pointsCapBySection[g]
        IN  desired > current =>
                /\ over => checked'[g] = checked[g]
                /\ ~over => Cardinality(checked'[g][s]) = desired

C2_LoadStep ==
    (last'.op = "applySheetSnapshot" /\ last'.doc.kind = "v2" /\ WithinBudget) =>
        \A g \in SectionNames :
            [s \in 1..StatCount[g] |-> Cardinality(checked'[g][s])]
                = RuleFill(last'.doc, g, 1, 0)

C2_IncreaseRefusedExactlyOverCap == [][C2_ClickStep /\ C2_LoadStep]_vars

(***************************************************************************)
(* C3  A click on pip k of a stat of value v that the budget allows (it    *)
(* lowers the stat, or the increase fits the cap) sets the value to 0      *)
(* when k = v and to k otherwise.                                          *)
(***************************************************************************)
C3_Step ==
    last'.op = "ClickPip" =>
        LET g == last'.g
            s == last'.s
            k == last'.k
            v == StatValue(g, s)
            allowed == k <= v \/ (pointsUsed(g) - v) + k <= pointsCapBySection[g]
        IN  allowed => Cardinality(checked'[g][s]) = (IF k = v THEN 0 ELSE k)

C3_AllowedClickSetsValue == [][C3_Step]_vars

(***************************************************************************)
(* C4  After applySheetSnapshot(doc), for any document, every group's      *)
(* points used are at most its cap.                                        *)
(***************************************************************************)
C4_LoadedWithinBudget == Loaded => WithinBudget

(***************************************************************************)
(* C5  Every filled pip is enabled, and a click that lowers a stat (on a   *)
(* filled pip) is never refused: it lowers the stat.                       *)
(***************************************************************************)
C5_Step ==
    /\ \A g \in SectionNames : \A s \in 1..StatCount[g] :
           checked'[g][s] \cap disabled'[g][s] = {}
    /\ last'.op = "ClickPip" =>
           LET g == last'.g
               s == last'.s
               v == StatValue(g, s)
           IN  (v > 0 /\ last'.k <= v) => Cardinality(checked'[g][s]) < v

C5_LoweringNeverRefused == [][C5_Step]_vars

(***************************************************************************)
(* C6  Toggling a trait or moving a slider of mind or social takes effect  *)
(* (it is not refused or undone) and leaves the points used and the        *)
(* remaining points of every group as they were.                           *)
(***************************************************************************)
C6_Step ==
    /\ last'.op = "ToggleTrait" =>
           /\ traits'[last'.g][last'.s] = ~traits[last'.g][last'.s]
           /\ \A h \in SectionNames :
                  /\ getSectionPointsUsed(Dom', h) = getSectionPointsUsed(Dom, h)
                  /\ remaining(Dom', h) = remaining(Dom, h)
    /\ last'.op = "MoveSlider" =>
           /\ sliders'[last'.g][last'.s] = last'.k
           /\ \A h \in SectionNames :
                  /\ getSectionPointsUsed(Dom', h) = getSectionPointsUsed(Dom, h)
                  /\ remaining(Dom', h) = remaining(Dom, h)

C6_TraitsAndSlidersFree == [][C6_Step]_vars

(***************************************************************************)
(* C7  applySheetSnapshot(getSheetSnapshot()) leaves the live document as  *)
(* it was: identity, notes (titles, texts, order), stat values, sliders,   *)
(* traits and portrait.                                                    *)
(***************************************************************************)
C7_RoundTrip == [][last'.op = "RoundTrip" => Document' = Document]_vars

\* a round trip of a sheet whose skills are filled up to the cap's reach
C7_RoundTripOfFilledSheet ==
    /\ last.op = "RoundTrip"
    /\ pointsUsed("skills") = 48

(***************************************************************************)
(* C8  After applySheetSnapshot(doc) for a version-2 doc (here: one that   *)
(* asks for no more than the caps), each stat has doc's value limited to   *)
(* the pip count, 0 when doc omits it, and each mind/social trait doc's    *)
(* value, unchecked when omitted, whatever the sheet was before.           *)
(***************************************************************************)
C8_LoadedAsDocSays ==
    (Loaded /\ last.doc.kind = "v2" /\ DocWithinBudget(last.doc)) =>
        /\ \A g \in SectionNames : \A s \in 1..StatCount[g] :
               StatValue(g, s) = Wanted(last.doc, g, s)
        /\ \A g \in {"mind", "social"} : \A t \in 1..TraitCount[g] :
               traits[g][t] = Entry(last.doc.traits[g], t, FALSE)

(***************************************************************************)
(* C9  applySheetSnapshot(null) leaves the canonical default document:     *)
(* default identity, the default note sections with empty text, all stats  *)
(* 0, all traits unchecked, sliders at their defaults, no portrait.        *)
(***************************************************************************)
C9_NullGivesDefault ==
    (Loaded /\ last.doc.kind = "null") =>
        /\ identity = IdentityDefault
        /\ notes = DefaultNotes
        /\ \A g \in SectionNames : \A s \in 1..StatCount[g] : StatValue(g, s) = 0
        /\ \A g \in SectionNames : \A t \in 1..TraitCount[g] : ~traits[g][t]
        /\ \A g \in SectionNames : \A j \in 1..SliderCount[g] :
               sliders[g][j] = SliderDefault
        /\ portraitData = ""

(***************************************************************************)
(* C10  After a version-2 document is applied, a read has exactly the      *)
(* form's identity, stat, slider and trait labels and only note titles of  *)
(* the form's title set, and what the document omits reads as the default. *)
(***************************************************************************)
C10_NoInventedKeys ==
    (Loaded /\ last.doc.kind = "v2") =>
        LET read == getSheetSnapshot(Dom)
            doc == last.doc
        IN  /\ DOMAIN Get(read.identity) = IdentityKeySet
            /\ \A g \in SectionNames :
                   DOMAIN Get(read.stats[g]) = 1..StatCount[g]
            /\ \A g \in {"mind", "social"} :
                   /\ DOMAIN Get(read.sliders[g]) = 1..SliderCount[g]
                   /\ DOMAIN Get(read.traits[g]) = 1..TraitCount[g]
            /\ \A i \in 1..Len(Get(read.notes)) :
                   Get(read.notes)[i].title \in NoteTitleSet
            /\ \A k \in IdentityKeySet :
                   (~Has(doc.identity) \/ k \notin DOMAIN Get(doc.identity))
                       => Get(read.identity)[k] = IdentityDefault[k]
            /\ \A g \in SectionNames : \A s \in 1..StatCount[g] :
                   (~Has(doc.stats[g]) \/ s \notin DOMAIN Get(doc.stats[g]))
                       => Get(read.stats[g])[s] = 0
            /\ \A g \in {"mind", "social"} : \A j \in 1..SliderCount[g] :
                   (~Has(doc.sliders[g]) \/ j \notin DOMAIN Get(doc.sliders[g]))
                       => Get(read.sliders[g])[j] = SliderDefault
            /\ ~Has(doc.notes) => Get(read.notes) = DefaultNotes

(***************************************************************************)
(* C11: after applySheetSnapshot(doc) the portrait of the sheet is the     *)
(* document's portrait when the document carries one, and none ("", read   *)
(* as null by getSheetSnapshot) when the document is null or carries no    *)
(* portrait; the portrait held before the call does not survive it.        *)
(***************************************************************************)
C11_PortraitAsDoc ==
    Loaded => portraitData = (IF last.doc.kind = "null" THEN "" ELSE last.doc.portrait)

\* a document without a portrait was applied to a sheet that held one
C11_HeldPortraitDropped ==
    /\ Loaded
    /\ last.held # ""
    /\ last.doc.kind = "v2"
    /\ last.doc.portrait = ""
    /\ portraitData = ""

(***************************************************************************)
(* C12: a legacy document {fields: [...]} applied to a sheet with C        *)
(* controls sets control i from entry i for every position both have (the  *)
(* checked state when the entry's t is "c", the value otherwise), ignores  *)
(* the entries beyond the last control and leaves the controls beyond the  *)
(* last entry at their reset defaults.                                     *)
(***************************************************************************)
\* the number of inputs and textareas of the frame, file inputs left out
ControlCount ==
    Len(notes) + Len(IdentityKeys)
        + SectionControls("body") + SectionControls("skills")
        + SectionControls("priorities") + SectionControls("mind")
        + SectionControls("social")

\* what control el shows: its checked state if it is a checkbox, else its value
ControlState(el) ==
    CASE el.type = "note" -> notes[el.i].text
      [] el.type = "identity" -> identity[el.k]
      [] el.type = "pip" -> el.i \in checked[el.g][el.s]
      [] el.type = "range" -> sliders[el.g][el.j]
      [] el.type = "trait" -> traits[el.g][el.t]

\* what control el shows after a reset
DefaultState(el) ==
    CASE el.type = "note" -> ""
      [] el.type = "identity" -> IdentityDefault[el.k]
      [] el.type = "pip" -> FALSE
      [] el.type = "range" -> SliderDefault
      [] el.type = "trait" -> FALSE

\* what control el shows once an entry was written to it: a "c" entry sets
\* the checked state, which only a checkbox shows; any other entry sets the
\* value, which a checkbox does not show and a range input keeps in range
EntryState(item, el) ==
    IF el.type \in {"pip", "trait"}
    THEN (IF item.t = "c" THEN item.on ELSE FALSE)
    ELSE IF item.t = "c" THEN DefaultState(el)
         ELSE IF el.type = "range" THEN SliderValue(item.n) ELSE item.v

C12_LegacyByPosition ==
    (Loaded /\ last.doc.kind = "fields") =>
        \A index \in 1..ControlCount :
            LET el == ControlAt(Dom, index)
            IN  ControlState(el) =
                    IF index <= Len(last.doc.fields)
                    THEN EntryState(last.doc.fields[index], el)
                    ELSE DefaultState(el)

\* every stat shows its value as a run of pips from the first
PrefixShaped ==
    \A g \in SectionNames : \A s \in 1..StatCount[g] : checked[g][s] = 1..StatValue(g, s)

\* the same, for documents applied to a sheet hardResetSheet is able to
\* clear: within its budgets and every stat a run of pips
C12_ClearableSheetStep ==
    [][(WithinBudget /\ PrefixShaped) => C12_LegacyByPosition']_vars

(***************************************************************************)
(* C13: a tab that was left and is returned to shows, once its deferred    *)
(* materialization has run, the live document and the relationship         *)
(* registry it had at the moment it was left, whatever was edited in       *)
(* between, provided no tab was activated or stored while a                *)
(* materialization was due.                                                *)
(***************************************************************************)
\* the tab activated last has been materialized
Returned ==
    /\ last.op = "applyTabSnapshot"
    /\ last.k = activeTabId
    /\ activeTabId \in DOMAIN away

C13_ReturnRestores ==
    (orderly /\ Returned) =>
        /\ getSheetSnapshot(Dom) = away[activeTabId].data
        /\ relationshipMap = away[activeTabId].relationships

\* the same, for a materialization on a sheet hardResetSheet is able to clear
C13_ClearableSheetStep ==
    [][(WithinBudget /\ PrefixShaped) => C13_ReturnRestores']_vars

(***************************************************************************)
(* C14: createTab stores the live document and registry into the record of *)
(* the tab that was active, appends one tab whose stored document is the   *)
(* default snapshot and whose registry and selection are empty, makes it   *)
(* active and leaves the live document equal to the default document; the  *)
(* records of the other tabs are unchanged.                                *)
(***************************************************************************)
\* the default document, as read from the sheet
DefaultDocument == getSheetSnapshot(initSheet)

\* in this step the live document and registry went into the record of the
\* active tab and the other records stayed
StoredActive ==
    \A i \in 1..Len(tabs) :
        tabs'[i] = IF tabs[i].id = activeTabId
                   THEN [tabs[i] EXCEPT !.data = getSheetSnapshot(Dom),
                                        !.relationships = relationshipMap,
                                        !.relationshipSelection = relationshipSelection]
                   ELSE tabs[i]

C14_Created ==
    /\ Len(tabs') = Len(tabs) + 1
    /\ StoredActive
    /\ tabs'[Len(tabs')].id \notin ListedIds
    /\ tabs'[Len(tabs')].data = buildDefaultSnapshot
    /\ tabs'[Len(tabs')].relationships = createRelationshipDefaults
    /\ tabs'[Len(tabs')].relationshipSelection = createRelationshipSelectionDefaults
    /\ activeTabId' = tabs'[Len(tabs')].id
    /\ getSheetSnapshot(Dom)' = DefaultDocument

C14_CreateTab == [][last'.op = "createNewTab" => C14_Created]_vars

\* the same, for a tab created over a sheet hardResetSheet is able to clear
C14_ClearableSheetStep ==
    [][(last'.op = "createNewTab" /\ WithinBudget /\ PrefixShaped) => C14_Created]_vars

(***************************************************************************)
(* C15: a successful import of a parsed file stores the live document into *)
(* the record of the tab that was active, appends one tab whose stored     *)
(* document is the file's content and whose registry and selection are the *)
(* file's normalised relationships, makes it active and applies the file's *)
(* content to the live surface; the records of the other tabs are          *)
(* unchanged.                                                              *)
(***************************************************************************)
\* in this step the import of file was completed
C15_Imported(file) ==
    /\ Len(tabs') = Len(tabs) + 1
    /\ \A i \in 1..Len(tabs) :
          /\ tabs[i].id # activeTabId => tabs'[i] = tabs[i]
          /\ tabs[i].id = activeTabId => tabs'[i].data = getSheetSnapshot(Dom)
    /\ tabs'[Len(tabs')].id \notin ListedIds
    /\ tabs'[Len(tabs')].data = file.data
    /\ tabs'[Len(tabs')].relationships = normalizeRelationshipMap(file.relationships)
    /\ tabs'[Len(tabs')].relationshipSelection
          = normalizeRelationshipSelection(file.relationshipSelection)
    /\ activeTabId' = tabs'[Len(tabs')].id
    /\ Dom' = applySheetSnapshot(Dom, file.data)
    /\ relationshipMap' = normalizeRelationshipMap(file.relationships)
    /\ relationshipSelection' = normalizeRelationshipSelection(file.relationshipSelection)

\* the read this step completed, if it completed one
Completed(i) ==
    /\ Len(reading') = Len(reading) - 1
    /\ \A j \in 1..Len(reading') : reading'[j] = IF j < i THEN reading[j] ELSE reading[j + 1]

C15_ImportTab ==
    [][\A i \in 1..Len(reading) :
          (Completed(i) /\ reading[i].file.valid) => C15_Imported(reading[i].file)]_vars

\* the same, for an import during whose read the application did not change
C15_UndisturbedImport ==
    [][\A i \in 1..Len(reading) :
          (Completed(i) /\ reading[i].file.valid /\ HeldIsCurrent(reading[i]))
              => C15_Imported(reading[i].file)]_vars

(***************************************************************************)
(* C16: the import of a file whose text is not valid JSON adds no tab and  *)
(* changes neither the active tab id, nor the stored document or registry  *)
(* of any tab, nor the live document or registry.                          *)
(***************************************************************************)
NothingImported ==
    /\ tabs' = tabs
    /\ activeTabId' = activeTabId
    /\ Dom' = Dom
    /\ relationshipMap' = relationshipMap
    /\ relationshipSelection' = relationshipSelection
    /\ frames' = frames

C16_InvalidImport ==
    [][/\ last'.op = "importFile" => NothingImported
       /\ \A i \in 1..Len(reading) :
             (Completed(i) /\ ~reading[i].file.valid) => NothingImported]_vars

\* the read of a file that is not JSON has ended on a sheet with an edit
\* not stored in any tab
C16_InvalidImportEnded ==
    /\ last.op = "handleImportTab"
    /\ last.k = 0
    /\ reading = <<>>
    /\ identity["Name"] = "Aria"
    /\ \A i \in 1..Len(tabs) : tabs[i].data # getSheetSnapshot(Dom)

(***************************************************************************)
(* C17: closing the only remaining tab changes nothing, and whatever tabs  *)
(* are created, switched to, closed and imported, the tab list is never    *)
(* empty.                                                                  *)
(***************************************************************************)
C17_NeverEmpty ==
    /\ [](Len(tabs) >= 1)
    /\ [][(last'.op = "removeTab" /\ Len(tabs) = 1) =>
            /\ tabs' = tabs
            /\ activeTabId' = activeTabId
            /\ Dom' = Dom
            /\ relationshipMap' = relationshipMap
            /\ relationshipSelection' = relationshipSelection
            /\ frames' = frames]_vars

\* the close button of the only remaining tab was used: the tab is still there
C17_OnlyTabKept ==
    /\ last.op = "removeTab"
    /\ Len(tabs) = 1
    /\ last.k \in ListedIds

(***************************************************************************)
(* C18: when the active tab, at position i counted from 0, is closed and   *)
(* other tabs remain, the tab at i-1 becomes active if i > 0, else the tab *)
(* that was at position 1, and the stored document and registry of that    *)
(* tab are materialized on the sheet in the deferred step; closing a tab   *)
(* that is not active leaves the active id and the live document as they   *)
(* were.                                                                   *)
(***************************************************************************)
\* the tab the claim names for closing the tab at place r, counted from 1
Successor(r) == IF r > 1 THEN tabs[r - 1] ELSE tabs[2]

C18_Closed ==
    LET r == FindIndex(tabs, last'.k)
    IN  IF last'.k = activeTabId
        THEN /\ activeTabId' = Successor(r).id
             /\ frames' = Append(frames, Frame("applyTabSnapshot", Successor(r).id, NullDoc))
        ELSE /\ activeTabId' = activeTabId
             /\ getSheetSnapshot(Dom)' = getSheetSnapshot(Dom)
             /\ frames' = frames

\* the deferred step applies the record of the tab it was scheduled for
C18_Materialized ==
    LET target == FindTab(tabs, last'.k)
    IN  Has(target) =>
            /\ Dom' = applySheetSnapshot(Dom, Get(target).data)
            /\ relationshipMap' = Get(target).relationships
            /\ relationshipSelection' = Get(target).relationshipSelection

ActiveListed == activeTabId \in ListedIds

C19_UnlistedId ==
    /\ []ActiveListed
    /\ [][(last'.op \in {"setActiveTab", "removeTab"} /\ last'.k \notin ListedIds) =>
            \/ /\ tabs' = tabs
               /\ activeTabId' = activeTabId
               /\ Dom' = Dom
               /\ relationshipMap' = relationshipMap
               /\ relationshipSelection' = relationshipSelection
               /\ frames' = frames
            \/ activeTabId' = tabs[1].id]_vars


(***************************************************************************)
(* C20: right after a save request and right after an export request the   *)
(* record of the active tab holds the live document and registry of that   *)
(* moment; right after a switch and right after createTab the record of    *)
(* the tab that was active holds the live document and registry it was     *)
(* left with.                                                              *)
(***************************************************************************)
\* the record of the active tab holds the live document and registry
ActiveStoresLive ==
    \E i \in 1..Len(tabs) :
        /\ tabs[i].id = activeTabId
        /\ tabs[i].data = getSheetSnapshot(Dom)
        /\ tabs[i].relationships = relationshipMap

\* in this step the record of the tab that was active took the live document
\* and registry
LeftStoresLive ==
    \E i \in 1..Len(tabs') :
        /\ tabs'[i].id = activeTabId
        /\ tabs'[i].data = getSheetSnapshot(Dom)
        /\ tabs'[i].relationships = relationshipMap

C24_GroupCleared(g) ==
    /\ \A s \in 1..StatCount[g] : checked'[g][s] = {}
    /\ \A t \in 1..TraitCount[g] : ~traits'[g][t]
    /\ sliders' = sliders
    /\ \A h \in SectionNames \ {g} :
          /\ checked'[h] = checked[h]
          /\ traits'[h] = traits[h]
    /\ identity' = identity
    /\ notes' = notes
    /\ portraitData' = portraitData

C24_ResetSection ==
    [][last'.op = "resetSectionPoints" => C24_GroupCleared(last'.g)]_vars

\* the same, for a reset on a sheet within its caps whose stats are runs of
\* pips
C24_ClearableSheetStep ==
    [][(last'.op = "resetSectionPoints" /\ WithinBudget /\ PrefixShaped)
          => C24_GroupCleared(last'.g)]_vars

\* the scheduled update leaves the document as it is
C24_UpdateKeepsDocument ==
    [][last'.op = "updatePointsDisplay" => Document' = Document]_vars

(***************************************************************************)
(* C25: resetSheetToDefaults called twice in a row leaves the document the *)
(* first call left, from any state of the sheet.                           *)
(***************************************************************************)
C25_ResetTwice ==
    [][(last.op = "resetSheetToDefaults" /\ last'.op = "resetSheetToDefaults")
          => getSheetSnapshot(Dom)' = getSheetSnapshot(Dom)]_vars

\* the second of two calls has run, the sheet being above a cap before the
\* first
C25_ResetTwiceDone ==
    /\ last.op = "resetSheetToDefaults"
    /\ last.k = 2
    /\ ~DocWithinBudget(last.doc)
    /\ WithinBudget

(***************************************************************************)
(* C26: after resetSheetToDefaults the live document is the canonical      *)
(* default document: default identity, the default notes, all stats 0, all *)
(* traits unchecked, no portrait and every slider at its default value.    *)
(***************************************************************************)
C26_DefaultDocument ==
    last.op = "resetSheetToDefaults" =>
        /\ identity = IdentityDefault
        /\ notes = DefaultNotes
        /\ \A g \in SectionNames : \A s \in 1..StatCount[g] : StatValue(g, s) = 0
        /\ \A g \in SectionNames : \A t \in 1..TraitCount[g] : ~traits[g][t]
        /\ portraitData = ""
        /\ \A g \in SectionNames : \A j \in 1..SliderCount[g] :
               sliders[g][j] = SliderDefault

\* the same without the sliders
C26_DefaultButSliders ==
    last.op = "resetSheetToDefaults" =>
        /\ identity = IdentityDefault
        /\ notes = DefaultNotes
        /\ \A g \in SectionNames : \A s \in 1..StatCount[g] : StatValue(g, s) = 0
        /\ \A g \in SectionNames : \A t \in 1..TraitCount[g] : ~traits[g][t]
        /\ portraitData = ""
        /\ \A g \in SectionNames : \A j \in 1..SliderCount[g] :
               sliders[g][j] = SliderMin

(***************************************************************************)
(* C27: after resetSheetToBlank the live document is the canonical blank   *)
(* document of getBlankSnapshot(): every identity value empty, no notes,   *)
(* all stats 0, all traits unchecked, no portrait and every slider at its  *)
(* default value.                                                          *)
(***************************************************************************)
C27_BlankDocument ==
    last.op = "resetSheetToBlank" =>
        /\ Some(identity) = buildBlankSnapshot.identity
        /\ Some(collectNotes(Dom)) = buildBlankSnapshot.notes
        /\ \A g \in SectionNames : \A s \in 1..StatCount[g] :
               StatValue(g, s) = Entry(buildBlankSnapshot.stats[g], s, 0)
        /\ \A g \in SectionNames : \A t \in 1..TraitCount[g] :
               traits[g][t] = Entry(buildBlankSnapshot.traits[g], t, FALSE)
        /\ portraitData = buildBlankSnapshot.portrait
        /\ \A g \in {"mind", "social"} :
               Some(sliders[g]) = buildBlankSnapshot.sliders[g]

\* what the sheet does show after resetSheetToBlank on a sheet within its
\* caps whose stats are runs of pips
C27_BlankButNotesAndSliders ==
    [][(last'.op = "resetSheetToBlank" /\ WithinBudget /\ PrefixShaped) =>
          /\ identity' = [k \in IdentityKeySet |-> ""]
          /\ notes' = DefaultNotes
          /\ \A g \in SectionNames : \A s \in 1..StatCount[g] : checked'[g][s] = {}
          /\ \A g \in SectionNames : \A t \in 1..TraitCount[g] : ~traits'[g][t]
          /\ portraitData' = ""
          /\ \A g \in SectionNames : \A j \in 1..SliderCount[g] :
                 sliders'[g][j] = SliderMin]_vars

(***************************************************************************)
(* C22.  After every change to the tab list or to the active tab id the    *)
(* stored blob is rewritten, so that starting from the stored blob yields  *)
(* the same tabs in the same order (id, title, stored document, registry,  *)
(* selection) and the same active tab id.                                  *)
(***************************************************************************)
C22_StoredRoundTrip ==
    createInitialTabs(stored) =
        [activeId |-> activeTabId, tabs |-> tabs, titles |-> titles]

\* the same with the titles left aside that have no character but blanks
C22_RoundTripButBlankTitles ==
    LET restarted == createInitialTabs(stored)
    IN  /\ restarted.activeId = activeTabId
        /\ restarted.tabs = tabs
        /\ DOMAIN restarted.titles = DOMAIN titles
        /\ \A id \in DOMAIN titles :
              Trim(titles[id]) # "" => restarted.titles[id] = titles[id]

(***************************************************************************)
(* C23.  Startup from any stored value never throws and yields a non-empty *)
(* tab list whose active id is the id of one of its tabs, the first tab    *)
(* when the stored activeId matches none.                                  *)
(***************************************************************************)
Started == last.op \in {"mount", "throw"}

\* the stored activeId is the id of a tab of the list
StoredActiveMatches(blob) ==
    /\ Has(blob)
    /\ Get(blob).activeId.string
    /\ Get(blob).activeId.v \in ListedIds

\* the tab list and the active id startup yields
C23_TabsOfStartup ==
    Started =>
        /\ Len(tabs) > 0
        /\ activeTabId \in ListedIds
        /\ (~StoredActiveMatches(last.held) => activeTabId = tabs[1].id)
        /\ (StoredActiveMatches(last.held) => activeTabId = Get(last.held).activeId.v)

C23_Startup == (Started => last.op # "throw") /\ C23_TabsOfStartup

(***************************************************************************)
(* C21.  Whenever a tab whose stored document is the BlankMarker becomes   *)
(* the materialised active tab (by switching to it, by closing the active  *)
(* tab before it, or as the active tab restored at startup), the live      *)
(* document becomes the canonical blank document (empty identity values,   *)
(* no notes, all stats 0) and the marker in the tab's record is replaced   *)
(* by that blank snapshot.                                                 *)
(***************************************************************************)
\* the record of tab tabId holds the marker
MarkerHeld(tabId) ==
    Has(FindTab(tabs, tabId)) /\ Get(FindTab(tabs, tabId)).data = BlankMarker

\* the live document is the canonical blank one
BlankShown ==
    /\ \A key \in DOMAIN identity : identity[key] = ""
    /\ Len(notes) = 0
    /\ \A g \in SectionNames : \A s \in 1..StatCount[g] : StatValue(g, s) = 0

\* the sheet is in a state every reset clears: within its caps, the stats
\* runs of pips from the first
Clearable == WithinBudget /\ PrefixShaped

\* a materialization of a tab that holds the marker shows the blank
\* document and puts the blank snapshot into the record
MarkerMaterialised ==
    (last'.op = "applyTabSnapshot" /\ MarkerHeld(last'.k)) =>
        /\ BlankShown'
        /\ Get(FindTab(tabs', last'.k)).data = buildBlankSnapshot

C21_BlankMarker ==
    /\ [](last.op = "initSheet" => ~MarkerHeld(activeTabId))
    /\ [][MarkerMaterialised]_vars

\* the same for switching and closing alone, from a sheet every reset clears
C21_MarkerOnSwitch == [][Clearable => MarkerMaterialised]_vars

\* switching and closing from any sheet: the record gets the blank snapshot
C21_MarkerReplaced ==
    [][(last'.op = "applyTabSnapshot" /\ MarkerHeld(last'.k)) =>
           Get(FindTab(tabs', last'.k)).data = buildBlankSnapshot]_vars

(***************************************************************************)
(* C28.  Selecting an entry of kind k, editing the relation text of an     *)
(* entry of kind k, confirming an edit in kind k, removing an entry of     *)
(* kind k and importing entries into kind k leave the selection and the    *)
(* entry list of every other kind unchanged.                               *)
(***************************************************************************)
RegistryOps ==
    {"selectRelationship", "updateRelationship", "confirmRelationshipEdit",
     "removeRelationship", "relationshipsImported"}

C28_OtherKindsKept ==
    [][last'.op \in RegistryOps =>
          \A kind \in RelationshipTabs \ {last'.g} :
              /\ relationshipMap'[kind] = relationshipMap[kind]
              /\ relationshipSelection'[kind] = relationshipSelection[kind]]_vars

\* an edit in friends was confirmed while family has entries and a selection
C28_ConfirmedBesideSelection ==
    /\ last.op = "confirmRelationshipEdit"
    /\ last.g = "friends"
    /\ relationshipSelection["friends"] = ""
    /\ relationshipSelection["family"] = "r6"
    /\ Len(relationshipMap["family"]) = 2

(***************************************************************************)
(* C29.  Importing a batch of files into kind k puts exactly one new entry *)
(* per successfully parsed file, in file order, in front of the entries    *)
(* already in k's list; files that fail to parse contribute no entry and   *)
(* do not stop the other files of the batch from being added; existing     *)
(* entries keep their relative order.                                      *)
(***************************************************************************)
\* the files of a batch whose text parses, in the order of the batch
ParsedFiles(files) == SelectSeq(files, LAMBDA file : file.valid)

\* the ids of the entries of a list
EntryIds(list) == {list[j].id : j \in 1..Len(list)}

C29_BatchInFront ==
    [][last'.op = "relationshipsImported" =>
          LET kind == last'.g
              before == relationshipMap[kind]
              after == relationshipMap'[kind]
              parsed == ParsedFiles(last'.held.files)
              new == Len(parsed)
          IN  /\ Len(after) = new + Len(before)
              /\ \A j \in 1..Len(before) : after[new + j] = before[j]
              /\ \A j \in 1..new :
                    /\ after[j].name = getRelationshipName(parsed[j].data, parsed[j].name)
                    /\ after[j].id \notin EntryIds(before)
                    /\ \A h \in 1..new : after[h].id = after[j].id => h = j]_vars

\* a batch of three files, one of them not parsing, was imported into a
\* list of two
C29_BatchWithFailureAdded ==
    /\ last.op = "relationshipsImported"
    /\ last.s = 3
    /\ Len(ParsedFiles(last.held.files)) = 2
    /\ Len(relationshipMap[last.g]) = 4
    /\ relationshipMap[last.g][4].id = "r6"

(***************************************************************************)
(* C30.  Entries of a relationship import started while tab A is active    *)
(* end up only in tab A's registry and never in the registry of another    *)
(* tab, also when the file reads complete after the user has switched to   *)
(* or created another tab.                                                 *)
(***************************************************************************)
\* every imported entry of the registry map belongs to tab tabId
ImportedBelong(map, tabId) ==
    \A kind \in RelationshipTabs : \A j \in 1..Len(map[kind]) :
        map[kind][j].id \in DOMAIN origin => origin[map[kind][j].id] = tabId

C30_ImportStaysInTab ==
    /\ \A i \in 1..Len(tabs) : ImportedBelong(tabs[i].relationships, tabs[i].id)
    /\ frames = <<>> => ImportedBelong(relationshipMap, activeTabId)

\* the same for the imports that end while their tab is shown
C30_ImportInShownTab ==
    [][(last'.op = "relationshipsImported" /\ last'.k = activeTabId /\ frames = <<>>) =>
          ImportedBelong(relationshipMap', activeTabId)]_vars

(***************************************************************************)
(* C33.  Whenever no points update is pending, the points figure shown for *)
(* each group equals max(0, cap - pointsUsed) computed over the current    *)
(* sheet state; this holds after pip clicks, trait toggles, group reset    *)
(* and after applying any snapshot including the legacy fields form.       *)
(***************************************************************************)
CounterShown == \A g \in SectionNames : counter[g] = remaining(Dom, g)

C33_PointsFigure == pending = 0 => CounterShown

\* every step but the application of a legacy document leaves the figures
\* right if they were
C33_FigureKept ==
    [][(CounterShown /\ pending' = 0
        /\ ~(last'.op = "applySheetSnapshot" /\ last'.doc.kind = "fields"))
       => CounterShown']_vars

(***************************************************************************)
(* C38.  After enforcement has run for a group, a not-yet-filled pip k of  *)
(* a stat with value v is disabled exactly when                            *)
(* (pointsUsed(group) - v) + k > cap(group), for every stat row of the     *)
(* group: the disable signal and the click veto agree on which increases   *)
(* are permitted.                                                          *)
(***************************************************************************)
\* the flags enforceSectionCap gives the pips of group g on the sheet D
DisabledAsClaimed(D, g) ==
    \A s \in 1..StatCount[g] : \A k \in (1..PipCount[g]) \ D.checked[g][s] :
        k \in enforceSectionCap(D, g).disabled[g][s]
            <=> (getSectionPointsUsed(D, g) - Cardinality(D.checked[g][s])) + k
                    > pointsCapBySection[g]

\* the capture listener cancels the click on the empty pip k exactly when
\* the flag of the pip is set
VetoAsFlag(D, g) ==
    \A s \in 1..StatCount[g] : \A k \in (1..PipCount[g]) \ D.checked[g][s] :
        ClickVetoed([D EXCEPT !.checked[g][s] = @ \cup {k}], g, s, k)
            <=> k \in enforceSectionCap(D, g).disabled[g][s]

\* C38, the flags: an empty pip k of a stat with value v is disabled exactly
\* when (pointsUsed - v) + k > cap (holds while the rows are filled 1..v)
C38_DisabledRule == \A g \in SectionNames : DisabledAsClaimed(Dom, g)

\* C38: the disable flag and the click veto agree on every empty pip of
\* every stat row of every group
C38_VetoAgrees == \A g \in SectionNames : VetoAsFlag(Dom, g)

(***************************************************************************)
(* C39.  In every reachable state the filled pips of every stat with N     *)
(* pips are exactly the pips 1..v for some 0 <= v <= N: no pip is filled   *)
(* while a lower pip of the same stat is empty.                            *)
(***************************************************************************)
\* C39: every stat row of the sheet is filled from its first pip
C39_PipsFromFirst ==
    \A g \in SectionNames : \A s \in 1..StatCount[g] :
        \E v \in 0..PipCount[g] : checked[g][s] = 1..v

\* C39, the steps that keep the shape: every step but the application of a
\* legacy fields document leaves rows filled from the first pip so
C39_ShapeKept ==
    [][(C39_PipsFromFirst
        /\ ~(last'.op = "applySheetSnapshot" /\ last'.doc.kind = "fields"))
       => C39_PipsFromFirst']_vars

(***************************************************************************)
(* C34.  When a second switchTab or a closeTab happens before the deferred *)
(* materialization of the previous switch has run, no tab's stored         *)
(* document or registry is overwritten with the content of another tab.    *)
(***************************************************************************)
\* the materialization of the active tab is still waiting for its frame:
\* the live surface shows what the tab left before had
MaterializationPending ==
    \E i \in 1..Len(frames) :
        frames[i].kind = "applyTabSnapshot" /\ frames[i].tabId = activeTabId

\* the step leaves the record of every tab it keeps as it was
RecordsKept ==
    \A i \in 1..Len(tabs) : \A j \in 1..Len(tabs') :
        tabs[i].id = tabs'[j].id => tabs[i] = tabs'[j]

\* C34: a switchTab or closeTab that comes before the materialization of
\* the previous switch leaves every tab's stored document, registry and
\* selection as they were
C34_NothingOverwritten ==
    [][(MaterializationPending /\ last'.op \in {"setActiveTab", "removeTab"})
       => RecordsKept]_vars

\* C34, closeTab: removeTab never changes the record of a tab it keeps
C34_CloseKeeps == [][last'.op = "removeTab" => RecordsKept]_vars

(***************************************************************************)
(* C35.  A deferred materialization scheduled for tab X writes X's stored  *)
(* document and registry to the live surface only if X is still the active *)
(* tab when it runs; a superseded materialization applies nothing.         *)
(***************************************************************************)
\* the step runs a queued callback that was scheduled for a tab which is
\* not the active one any more
SupersededFrameRuns ==
    /\ frames # <<>>
    /\ frames' = Tail(frames)
    /\ Head(frames).tabId # activeTabId

\* the live surface: the controls of the sheet and the registry shown
SurfaceKept ==
    /\ Dom' = Dom
    /\ relationshipMap' = relationshipMap
    /\ relationshipSelection' = relationshipSelection

\* C35: a deferred materialization that runs when its tab is not the
\* active tab leaves the live document, registry and selection as they are
C35_SupersededAppliesNothing == [][SupersededFrameRuns => SurfaceKept]_vars

(***************************************************************************)
(* C36.  Under any interleaving of createTab, switchTab, closeTab,         *)
(* importTab completions and deferred materializations, once no deferred   *)
(* materialization and no import read is pending, the document and         *)
(* registry last written to the live surface by a tab operation are those  *)
(* of the currently active tab.                                            *)
(***************************************************************************)
\* the latest step was a tab operation that wrote a tab's document to the
\* live surface: a queued callback, createNewTab, or an import that parsed
WroteSurface ==
    \/ last.op \in {"applyTabSnapshot", "applySheetSnapshot", "createNewTab"}
    \/ last.op = "handleImportTab" /\ last.k # 0

\* nothing is waiting: no queued callback, no file being read
Quiet == frames = <<>> /\ reading = <<>>

\* C36: with nothing pending, the tab operation that wrote the live
\* surface last wrote the document and registry of the active tab
C36_SurfaceOfActiveTab == (Quiet /\ WroteSurface) => last.k = activeTabId

(***************************************************************************)
(* C37.  If the user switches tabs or edits the relationship registry      *)
(* between the start of an importTab and the completion of its file read,  *)
(* the commit performed at completion stores the live document, registry   *)
(* and selection into the tab that is active at completion.                *)
(***************************************************************************)
\* the step completes the read of an import file that parses
ImportCompletes ==
    /\ Len(reading') < Len(reading)
    /\ last'.op = "handleImportTab"
    /\ last'.k # 0

\* after the step the record of the tab that was active before it holds
\* what the live surface showed before it
ActiveCommitted ==
    \A j \in 1..Len(tabs') :
        tabs'[j].id = activeTabId =>
            /\ tabs'[j].data = Live.data
            /\ tabs'[j].relationships = Live.relationships
            /\ tabs'[j].relationshipSelection = Live.relationshipSelection

\* C37: the commit at the completion of an import stores the live
\* document, registry and selection into the tab active at completion
C37_CommitAtCompletion == [][ImportCompletes => ActiveCommitted]_vars

(***************************************************************************)
(* C40.  In every reachable state the selection of each kind, in the live  *)
(* registry and in every tab record, is either null or the id of an entry  *)
(* currently in that kind's list.                                          *)
(***************************************************************************)
\* the selection of every kind is null or the id of an entry of the list
SelectionListed(map, selection) ==
    \A t \in RelationshipTabs :
        selection[t] = "" \/ \E i \in 1..Len(map[t]) : map[t][i].id = selection[t]

\* C40: the live selection and the selection of every tab record name an
\* entry of the list of their kind, or nothing
C40_SelectionListed ==
    /\ SelectionListed(relationshipMap, relationshipSelection)
    /\ \A i \in 1..Len(tabs) :
          SelectionListed(tabs[i].relationships, tabs[i].relationshipSelection)

(***************************************************************************)
(* Portrait uploads: the change listener of the portrait input hands the   *)
(* file to a FileReader of its own and returns; the reader's onload runs   *)
(* when the file has been read, in whatever order the reads finish.        *)
(***************************************************************************)
\* the files the user picks for the portrait
PortraitFiles == {"ann.png", "bo.png"}

\* number of uploads the user starts
MaxReads == 3

\* reader.result of readAsDataURL(file): the file as a data: URL
readAsDataURL(file) == "data:" \o file

PortraitOnLoadKept(current, result) == IF current = "" THEN result ELSE current

\* reader.onload (part_002 712-716): portraitData = reader.result
PortraitOnLoad(current, result) == result

\* the change listener of the portrait input (part_002 704-720)
StartPortraitRead(file) ==
    /\ ops < MaxReads
    /\ uploads' = Append(uploads, [file |-> file, stamp |-> ops + 1])
    /\ ops' = ops + 1
    /\ last' = Op("readAsDataURL", file, ops + 1, 0, NullDoc)
    /\ UNCHANGED <<identity, notes, checked, disabled, sliders, traits,
                   traitDisabled, counter, portraitData, pending, tabs,
                   activeTabId, relationshipMap, relationshipSelection, frames,
                   reading, nextTab, download, away, orderly, titles, stored,
                   importing, origin>>

\* the FileReader of upload i fires onload
CompletePortraitRead(i) ==
    /\ portraitData' = PortraitOnLoad(portraitData, readAsDataURL(uploads[i].file))
    /\ uploads' = [j \in 1..(Len(uploads) - 1) |->
                      IF j < i THEN uploads[j] ELSE uploads[j + 1]]
    /\ last' = Op("onload", uploads[i].file, uploads[i].stamp, 0, NullDoc)
    /\ UNCHANGED <<identity, notes, checked, disabled, sliders, traits,
                   traitDisabled, counter, pending, ops, tabs,
                   activeTabId, relationshipMap, relationshipSelection, frames,
                   reading, nextTab, download, away, orderly, titles, stored,
                   importing, origin>>

NextPortrait ==
    \/ \E file \in PortraitFiles : StartPortraitRead(file)
    \/ \E i \in 1..Len(uploads) : CompletePortraitRead(i)

\* the sheet under portrait uploads whose reads finish in any order
SpecPortrait == Init /\ [][NextPortrait]_vars

(***************************************************************************)
(* C31.  When several portrait file reads are in flight and no snapshot is *)
(* applied in between, then after all of them have completed the sheet's   *)
(* portrait is the result of the read that completed last, whatever the    *)
(* order in which the uploads were started.                                *)
(***************************************************************************)
\* C31: once every read has completed, the portrait is the data URL of the
\* file whose read completed last
C31_LastCompletedWins ==
    (uploads = <<>> /\ last.op = "onload") => portraitData = readAsDataURL(last.g)

\* the upload started first completed last, after a later upload of another
\* file had set the portrait
C31_FirstStartedCompletedLast ==
    /\ uploads = <<>>
    /\ ops >= 2
    /\ last.op = "onload"
    /\ last.s = 1
    /\ last.g = "ann.png"
    /\ last.held = readAsDataURL("bo.png")
    /\ portraitData = readAsDataURL("ann.png")

(***************************************************************************)
(* The diff-export variant of the sheet (part_003 1-394): the same form    *)
(* with plain rows of pip checkboxes and no budgets; its export button     *)
(* writes the keys of getState() that differ from the state of the form    *)
(* at start, its import reads such a file.  setIdentity, setNotes,         *)
(* setSliders, setChecks and the legacy fields loop are the code of the    *)
(* main variant.                                                           *)
(***************************************************************************)
\* getState (part_003 241-265)
getState(D) == [getSheetSnapshot(D) EXCEPT !.kind = "state", !.portrait = ""]

\* the keys of current whose value is not that of base
DiffKeys(current, base) ==
    {key \in DOMAIN current : key \notin DOMAIN base \/ current[key] # base[key]}

\* diffObject on an object of plain values (part_003 267-286, the last
\* branch), and the test of the caller that drops an empty result
DiffPlain(current, base) ==
    IF ~Has(current) THEN None
    ELSE LET b == IF Has(base) THEN Get(base) ELSE <<>>
             out == [key \in DiffKeys(Get(current), b) |-> Get(current)[key]]
         IN  IF DiffKeys(Get(current), b) = {} THEN None ELSE Some(out)

DiffArrayUnlessEmpty(currentValue, baseValue) ==
    IF ~Has(currentValue) \/ Get(currentValue) = <<>> \/ currentValue = baseValue
    THEN None ELSE currentValue

\* diffObject on an array (part_003 272-275): kept whole when its JSON
\* text differs from that of the base
DiffArray(currentValue, baseValue) ==
    IF ~Has(currentValue) \/ currentValue = baseValue THEN None ELSE currentValue

\* diffObject(current, base) (part_003 267-286)
diffObject(current, base) ==
    [current EXCEPT
        !.identity = DiffPlain(current.identity, base.identity),
        !.notes = DiffArray(current.notes, base.notes),
        !.stats = [g \in SectionNames |-> DiffPlain(current.stats[g], base.stats[g])],
        !.sliders = [g \in SectionNames |->
                        DiffPlain(current.sliders[g], base.sliders[g])],
        !.traits = [g \in SectionNames |->
                       DiffPlain(current.traits[g], base.traits[g])]]

\* const defaults = getState() (part_003 288)
defaults == getState(RenderedForm)

\* the click listener of exportBtn (part_003 290-313): the payload written
\* to the file
ExportPayload(D) ==
    [diffObject(getState(D), defaults) EXCEPT !.kind = "v2",
                                              !.portrait = D.portraitData]

\* setDotRows of the variant (part_003 111-123): dot.checked = index < count
setPlainDotRows(D, g, data) ==
    [D EXCEPT !.checked[g] =
        [s \in 1..StatCount[g] |->
            IF s \in DOMAIN data THEN 1..Min2(PipCount[g], data[s])
            ELSE D.checked[g][s]]]

\* the keys of one section read by the import (part_003 349-376)
ImportSection(D, data, g) ==
    LET D1 == IF Has(data.stats[g]) THEN setPlainDotRows(D, g, Get(data.stats[g])) ELSE D
        D2 == IF Has(data.sliders[g]) THEN setSliders(D1, g, Get(data.sliders[g])) ELSE D1
    IN  IF Has(data.traits[g]) THEN setChecks(D2, g, Get(data.traits[g])) ELSE D2

RECURSIVE ImportSections(_, _, _)
ImportSections(D, data, n) ==
    IF n > Len(Sections) THEN D
    ELSE ImportSections(ImportSection(D, data, Sections[n]), data, n + 1)

\* reader.onload of the import (part_003 330-388)
ImportPayload(D, data) ==
    LET A == IF data.kind = "fields"
             THEN applyFieldsFrom(D, data.fields, 1, Len(data.fields))
             ELSE LET D1 == setIdentity(D, data.identity)
                      D2 == IF Has(data.notes) THEN setNotes(D1, Get(data.notes))
                            ELSE D1
                  IN  ImportSections(D2, data, 1)
    IN  IF data.portrait # "" THEN [A EXCEPT !.portraitData = data.portrait] ELSE A

\* what the user may have made of the form before exporting
DiffNames == {"Jane Doe", "Aria", ""}
DiffNotes ==
    {DefaultNotes, <<>>, <<[title |-> "Extras", text |-> "scar"]>>,
     [DefaultNotes EXCEPT ![1].text = "brave"]}
DiffRows == {{}, 1..3, 1..6, {2, 3}}
DiffSliders == {SliderDefault, SliderMin, SliderMax}
DiffPortraits == {"", "data:p1"}

\* the variant with its form filled in
InitDiff ==
    /\ \E name \in DiffNames : \E n \in DiffNotes : \E row \in DiffRows :
       \E v \in DiffSliders : \E on \in BOOLEAN : \E p \in DiffPortraits :
          SetDomTo([RenderedForm EXCEPT !.identity["Name"] = name,
                                        !.notes = n,
                                        !.checked["body"][1] = row,
                                        !.sliders["mind"][1] = v,
                                        !.traits["social"][8] = on,
                                        !.portraitData = p])
    /\ pending = 0
    /\ uploads = <<>>
    /\ ops = 0
    /\ last = Op("initSheet", "", 0, 0, NullDoc)
    /\ tabs = createInitialTabs(None).tabs
    /\ activeTabId = createInitialTabs(None).activeId
    /\ relationshipMap = createRelationshipDefaults
    /\ relationshipSelection = createRelationshipSelectionDefaults
    /\ frames = <<>>
    /\ reading = <<>>
    /\ nextTab = 2
    /\ download = None
    /\ away = <<>>
    /\ orderly = TRUE
    /\ titles = createInitialTabs(None).titles
    /\ stored = None
    /\ importing = <<>>
    /\ origin = <<>>

\* the user exports, opens the page anew and imports the exported file
DiffRoundTrip ==
    /\ ops < MaxOps
    /\ SetDom(ImportPayload(RenderedForm, ExportPayload(Dom)))
    /\ ops' = ops + 1
    /\ last' = Op("diffRoundTrip", "", 0, 0, ExportPayload(Dom))
    /\ UNCHANGED appVars
    /\ UNCHANGED pending

NextDiff == DiffRoundTrip

\* the diff-export variant: a filled form exported and read back
SpecDiff == InitDiff /\ [][NextDiff]_vars

(***************************************************************************)
(* C32.  In the diff-export variant, exporting a document d and importing  *)
(* that file on a fresh default sheet reproduces d's identity, notes,      *)
(* stats, sliders and traits; a document with all notes removed reads back *)
(* with no notes and a changed Name reads back unchanged.                  *)
(***************************************************************************)
DiffDocument == <<identity, notes, StatValues, sliders, traits>>

\* C32: the document read back from the exported diff is the document
\* exported, in identity, notes, stats, sliders and traits
C32_DiffRoundTrip == [][last'.op = "diffRoundTrip" => DiffDocument' = DiffDocument]_vars

\* a form with the Name changed, all notes removed, a stat, a slider and a
\* trait changed has been exported and read back
C32_ChangedSheetReadBack ==
    /\ last.op = "diffRoundTrip"
    /\ identity["Name"] = "Aria"
    /\ Has(last.doc.identity)
    /\ DOMAIN Get(last.doc.identity) = {"Name"}
    /\ ~Has(last.doc.stats["mind"])
    /\ notes = <<>>
    /\ StatValue("body", 1) = 3
    /\ sliders["mind"][1] = SliderMin
    /\ traits["social"][8]

=============================================================================
